---- MODULE Spec2Model ----
(***************************************************************************)
(* pi-consult (src/unnamed/part_001): the session store (start / send /    *)
(* end / purge / ask / list) and one conversational turn of sendToAgent    *)
(* against a subordinate process speaking line-delimited JSON.             *)
(*                                                                         *)
(* Strings are sequences of one-character strings, so that the regular     *)
(* expressions, length checks, split/join, trim and padEnd of the source   *)
(* are computed and not assumed.                                           *)
(*                                                                         *)
(* Time is counted in units of the configured timeout's granularity: the   *)
(* pending timer holds the time left until it fires, Tick lets one unit    *)
(* pass.                                                                   *)
(***************************************************************************)
EXTENDS Integers, Sequences, FiniteSets, TLC

(***************************************************************************)
(* Bounds of the model.                                                    *)
(***************************************************************************)
\* the configured timeout of a turn, in time units (options.timeout)
Timeout == 2
\* how many generated (unnamed) session ids exist
MaxUUIDs == 1
\* the longest accumulated streamed text the subordinate is let to produce
MaxText == 1
\* the same where the observer notes the text
MaxStreamed == 3

(***************************************************************************)
(* Program constants.                                                      *)
(***************************************************************************)
\* validateSessionName: name.length > 64 is rejected
MaxNameLen == 64
\* cmdList: idDisplay.padEnd(20), model.padEnd(25), status.padEnd(8)
IdPad == 20
ModelPad == 25
StatusPad == 8
\* cmdList: info.id.slice(0, 8) of a UUID
UUIDPrefix == 8
\* isUUID: the length of 8-4-4-4-12 with its four dashes
UUIDLen == 36

(***************************************************************************)
(* Characters and strings.                                                 *)
(***************************************************************************)
Lower == {"a","b","c","d","e","f","g","h","i","j","k","l","m",
          "n","o","p","q","r","s","t","u","v","w","x","y","z"}
Upper == {"A","B","C","D","E","F","G","H","I","J","K","L","M",
          "N","O","P","Q","R","S","T","U","V","W","X","Y","Z"}
Digit == {"0","1","2","3","4","5","6","7","8","9"}
\* the class [a-zA-Z0-9_-]
IdChars == Lower \cup Upper \cup Digit \cup {"_", "-"}
\* the class [0-9a-f] under the i flag
HexChars == Digit \cup {"a","b","c","d","e","f","A","B","C","D","E","F"}
\* what String.prototype.trim removes (the ones the model's texts contain)
WhiteSpace == {" ", "\n", "\t"}

Repeat(c, n) == [i \in 1..n |-> c]

\* /^[a-zA-Z0-9_-]+$/.test(s)
MatchesIdRegex(s) == Len(s) >= 1 /\ \A i \in 1..Len(s) : s[i] \in IdChars

\* String.prototype.padEnd(n): pad with spaces up to n, longer strings unchanged
PadEnd(s, n) == IF Len(s) >= n THEN s ELSE s \o Repeat(" ", n - Len(s))

RECURSIVE TrimStart(_)
TrimStart(s) == IF s # <<>> /\ Head(s) \in WhiteSpace THEN TrimStart(Tail(s)) ELSE s
RECURSIVE TrimEnd(_)
TrimEnd(s) == IF s # <<>> /\ s[Len(s)] \in WhiteSpace
              THEN TrimEnd(SubSeq(s, 1, Len(s) - 1)) ELSE s
\* String.prototype.trim
Trim(s) == TrimEnd(TrimStart(s))

\* String.prototype.split(":"): the sequence of parts
RECURSIVE SplitColon(_, _)
SplitColon(s, cur) ==
    IF s = <<>> THEN <<cur>>
    ELSE IF Head(s) = ":" THEN <<cur>> \o SplitColon(Tail(s), <<>>)
    ELSE SplitColon(Tail(s), Append(cur, Head(s)))
Split(s) == SplitColon(s, <<>>)

\* Array.prototype.join(sep)
RECURSIVE Join(_, _)
Join(parts, sep) ==
    IF parts = <<>> THEN <<>>
    ELSE IF Len(parts) = 1 THEN parts[1]
    ELSE parts[1] \o sep \o Join(Tail(parts), sep)

(***************************************************************************)
(* Inputs.                                                                 *)
(***************************************************************************)
NameA == <<"a">>
NameMax == Repeat("b", MaxNameLen)
NameLong == Repeat("c", MaxNameLen + 1)
NameEmpty == <<>>
NameSlash == <<".", ".", "/", "x">>
NameSpace == <<"a", " ">>

\* the strings a caller passes as -n <name> or -s <session>: one valid name, of
\* the greatest length, and four invalid ones
Names == {NameMax, NameLong, NameEmpty, NameSlash, NameSpace}

ModelGood == <<"p", ":", "m", ":", "x">>
ModelBad == <<"p", "m">>
\* the strings a caller passes as -m <model>
Models == {ModelGood, ModelBad}
\* another well-formed model, for a second start with the same name
ModelOther == <<"q", ":", "m">>

HexDigits == <<"0","1","2","3","4","5","6","7","8","9","a","b","c","d","e","f">>
\* crypto.randomUUID(): the i-th generated id, 8-4-4-4-12 lower-case hex
MkUUID(i) == Repeat("0", 8) \o <<"-">> \o Repeat("0", 4) \o <<"-">> \o <<"4">>
             \o Repeat("0", 3) \o <<"-">> \o <<"8">> \o Repeat("0", 3) \o <<"-">>
             \o Repeat("0", 11) \o <<HexDigits[((i - 1) % 16) + 1]>>
UUIDs == {MkUUID(i) : i \in 1..MaxUUIDs}

(***************************************************************************)
(* The session directory.                                                  *)
(*   infoFiles    : id -> the SessionInfo stored in <id>.info.json; its    *)
(*                  domain is the set of ids whose metadata file exists    *)
(*   sessionFiles : the ids whose transcript <id>.jsonl exists (the file   *)
(*                  is created and appended to by the subordinate process) *)
(*   last         : what the last command line invocation did: its         *)
(*                  command, its arguments, the error it failed with       *)
(*                  ("none" on success, "running" while its turn runs) and *)
(*                  what it returned or printed                            *)
(***************************************************************************)
VARIABLES infoFiles, sessionFiles, last

\* const DEFAULT_TOOLS = "read,grep,find,ls"
DEFAULT_TOOLS == <<"r","e","a","d",",","g","r","e","p",",","f","i","n","d",",","l","s">>

\* fs.existsSync(getSessionInfoPath(id))
InfoExists(files, id) == id \in DOMAIN files

\* fs.writeFileSync(getSessionInfoPath(info.id), JSON.stringify(info))
saveSessionInfo(files, info) ==
    [i \in (DOMAIN files) \cup {info.id} |-> IF i = info.id THEN info ELSE files[i]]

\* fs.unlinkSync(getSessionInfoPath(id))
UnlinkInfo(files, id) == [i \in (DOMAIN files) \ {id} |-> files[i]]

\* a faulty variant: any non-empty id passes
validateSessionIdLax(sessionId) ==
    IF sessionId = <<>> THEN "InvalidSessionId" ELSE "none"

\* validateSessionId: "none" or the error it throws
validateSessionId(sessionId) ==
    IF ~MatchesIdRegex(sessionId) THEN "InvalidSessionId" ELSE "none"

\* a faulty variant: the length test is off by one
validateSessionNameShort(name) ==
    IF ~MatchesIdRegex(name) THEN "InvalidSessionName"
    ELSE IF Len(name) >= MaxNameLen THEN "NameTooLong"
    ELSE "none"

\* validateSessionName: "none" or the error it throws
validateSessionName(name) ==
    IF ~MatchesIdRegex(name) THEN "InvalidSessionName"
    ELSE IF Len(name) > MaxNameLen THEN "NameTooLong"
    ELSE "none"

\* a faulty variant: a closed session is not loaded
loadSessionInfoActiveOnly(files, sessionId) ==
    IF validateSessionId(sessionId) # "none"
    THEN [err |-> validateSessionId(sessionId), info |-> <<>>]
    ELSE IF ~InfoExists(files, sessionId) \/ files[sessionId].status = "closed"
    THEN [err |-> "SessionNotFound", info |-> <<>>]
    ELSE [err |-> "none", info |-> files[sessionId]]

\* loadSessionInfo: [err, info]
loadSessionInfo(files, sessionId) ==
    IF validateSessionId(sessionId) # "none"
    THEN [err |-> validateSessionId(sessionId), info |-> <<>>]
    ELSE IF ~InfoExists(files, sessionId)
    THEN [err |-> "SessionNotFound", info |-> <<>>]
    ELSE [err |-> "none", info |-> files[sessionId]]

\* variant: end on a closed session opens it again
closeSessionToggle(files, sessionId) ==
    IF validateSessionId(sessionId) # "none"
    THEN [err |-> validateSessionId(sessionId), files |-> files]
    ELSE LET l == loadSessionInfo(files, sessionId) IN
         IF l.err # "none" THEN [err |-> l.err, files |-> files]
         ELSE [err |-> "none",
               files |-> saveSessionInfo(files,
                            [l.info EXCEPT !.status = IF @ = "closed" THEN "unset"
                                                      ELSE "closed"])]

\* closeSession: [err, files]
closeSession(files, sessionId) ==
    IF validateSessionId(sessionId) # "none"
    THEN [err |-> validateSessionId(sessionId), files |-> files]
    ELSE LET l == loadSessionInfo(files, sessionId) IN
         IF l.err # "none" THEN [err |-> l.err, files |-> files]
         ELSE [err |-> "none",
               files |-> saveSessionInfo(files, [l.info EXCEPT !.status = "closed"])]

\* a faulty variant: the transcript is left behind
purgeSessionInfoOnly(files, sfiles, sessionId) ==
    IF validateSessionId(sessionId) # "none"
    THEN [err |-> validateSessionId(sessionId), files |-> files, sfiles |-> sfiles]
    ELSE [err |-> "none",
          files |-> IF InfoExists(files, sessionId)
                    THEN UnlinkInfo(files, sessionId) ELSE files,
          sfiles |-> sfiles]

\* purgeSession: [err, files, sfiles]
purgeSession(files, sfiles, sessionId) ==
    IF validateSessionId(sessionId) # "none"
    THEN [err |-> validateSessionId(sessionId), files |-> files, sfiles |-> sfiles]
    ELSE [err |-> "none",
          files |-> IF InfoExists(files, sessionId)
                    THEN UnlinkInfo(files, sessionId) ELSE files,
          sfiles |-> sfiles \ {sessionId}]

\* a faulty variant: the name is not looked up before the record is written
cmdStartOverwrite(files, model, name, uuid) ==
    LET modelParts == Split(model)
        Fail(e) == [err |-> e, id |-> <<>>, files |-> files]
    IN
    IF Len(modelParts) < 2 THEN Fail("InvalidModel")
    ELSE IF name # <<>> /\ validateSessionName(name) # "none"
    THEN Fail(validateSessionName(name))
    ELSE LET sessionId == IF name # <<>> THEN name ELSE uuid
             info == [id          |-> sessionId,
                      model       |-> model,
                      provider    |-> modelParts[1],
                      modelId     |-> Join(Tail(modelParts), <<":">>),
                      tools       |-> DEFAULT_TOOLS,
                      sessionFile |-> sessionId,
                      status      |-> "unset"]
         IN [err |-> "none", id |-> sessionId, files |-> saveSessionInfo(files, info)]

\* a faulty variant: the name of a closed session is free again
cmdStartOverClosed(files, model, name, uuid) ==
    LET modelParts == Split(model)
        Fail(e) == [err |-> e, id |-> <<>>, files |-> files]
    IN
    IF Len(modelParts) < 2 THEN Fail("InvalidModel")
    ELSE IF name # <<>> /\ validateSessionName(name) # "none"
    THEN Fail(validateSessionName(name))
    ELSE IF name # <<>> /\ InfoExists(files, name) /\ files[name].status # "closed"
    THEN Fail("AlreadyExists")
    ELSE LET sessionId == IF name # <<>> THEN name ELSE uuid
             info == [id          |-> sessionId,
                      model       |-> model,
                      provider    |-> modelParts[1],
                      modelId     |-> Join(Tail(modelParts), <<":">>),
                      tools       |-> DEFAULT_TOOLS,
                      sessionFile |-> sessionId,
                      status      |-> "unset"]
         IN [err |-> "none", id |-> sessionId, files |-> saveSessionInfo(files, info)]

\* cmdStart, given the id crypto.randomUUID() would return: [err, id, files]
cmdStart(files, model, name, uuid) ==
    LET modelParts == Split(model)
        Fail(e) == [err |-> e, id |-> <<>>, files |-> files]
    IN
    IF Len(modelParts) < 2 THEN Fail("InvalidModel")
    ELSE IF name # <<>> /\ validateSessionName(name) # "none"
    THEN Fail(validateSessionName(name))
    ELSE IF name # <<>> /\ InfoExists(files, name) THEN Fail("AlreadyExists")
    ELSE LET sessionId == IF name # <<>> THEN name ELSE uuid
             info == [id          |-> sessionId,
                      model       |-> model,
                      provider    |-> modelParts[1],
                      modelId     |-> Join(Tail(modelParts), <<":">>),
                      tools       |-> DEFAULT_TOOLS,
                      sessionFile |-> sessionId,
                      status      |-> "unset"]
         IN [err |-> "none", id |-> sessionId, files |-> saveSessionInfo(files, info)]

\* isUUID: /^[0-9a-f]{8}-[0-9a-f]{4}-[0-9a-f]{4}-[0-9a-f]{4}-[0-9a-f]{12}$/i
isUUID(str) ==
    /\ Len(str) = UUIDLen
    /\ \A i \in 1..UUIDLen :
          IF i \in {9, 14, 19, 24} THEN str[i] = "-" ELSE str[i] \in HexChars

\* cmdList: one line per metadata file (the age column is left out)
ListRow(info) ==
    [id     |-> PadEnd(IF isUUID(info.id)
                       THEN SubSeq(info.id, 1, UUIDPrefix) \o <<".", ".", ".">>
                       ELSE info.id, IdPad),
     model  |-> PadEnd(info.model, ModelPad),
     status |-> PadEnd(IF info.status = "closed"
                       THEN <<"c","l","o","s","e","d">>
                       ELSE <<"a","c","t","i","v","e">>, StatusPad)]
cmdList(files) == {ListRow(files[i]) : i \in DOMAIN files}

(***************************************************************************)
(* One turn (sendToAgent).                                                 *)
(*   progress : the status stored in PROGRESS_FILE, "absent" when the file *)
(*              does not exist                                             *)
(*   turn     : the locals of the running sendToAgent call, the state of   *)
(*              its promises and of the subordinate process                *)
(*   obs      : an observer's notes.  Clocks, each counted up to            *)
(*              Timeout + 1: time since the turn started (elapsed), since  *)
(*              the last activity event was processed (idle) and, when the *)
(*              observer times steps, since sendToAgent entered the step   *)
(*              it is in (step).  When the observer notes the text: the    *)
(*              text_delta fragments processed, in order (streamed), the   *)
(*              number of agent_end events processed (ends), and whether   *)
(*              a text_delta came after an agent_end (late).               *)
(***************************************************************************)
VARIABLES progress, turn, obs

(***************************************************************************)
(* Command line invocations that run at the same time, each in a process   *)
(* of its own, on the same session directory and the same progress file.   *)
(*   calls : for each such process what it was called to do and how far it *)
(*           has got                                                       *)
(***************************************************************************)
VARIABLE calls

vars == <<infoFiles, sessionFiles, last, progress, turn, obs, calls>>

\* the errors a promise of the turn is rejected with
AbortErrors == {"UntrackedResponse", "StreamError", "MessageError", "HookError",
                "ProcessExit"}
TimeoutErrors == {"TimeoutWaiting", "TimeoutInactivity"}
TurnErrors == AbortErrors \cup TimeoutErrors \cup {"ResponseError"}

NoUsage == [set |-> FALSE, input |-> 0, output |-> 0, cost |-> 0]

\* no sendToAgent call is running
IdleTurn ==
    [pc           |-> "idle",     \* idle, handshake, prompting, streaming, done, crashed
     caller       |-> "none",     \* cmdSend called from main ("send") or from cmdAsk ("ask")
     sessionId    |-> <<>>,       \* info.id
     proc         |-> "none",     \* none, running, exited
     sigterm      |-> "none",     \* proc.kill("SIGTERM"): none, sent, noproc
     stdinEnded   |-> FALSE,      \* proc.stdin.end() was called
     rlClosed     |-> FALSE,      \* the readline interface is closed
     timer        |-> -1,         \* time left on timeoutHandle, -1: no timer pending
     timerMsg     |-> "TimeoutWaiting",  \* the error the pending timer rejects with
     reqId        |-> 0,
     pending      |-> {},         \* the keys of the pending map
     cmdP         |-> [i \in 1..2 |-> "unsent"],  \* the promise sendCommand returned
     doneP        |-> "pending",  \* donePromise: pending, resolved or its error
     timeoutP     |-> "pending",  \* timeoutPromise: pending or its error
     race         |-> "none",     \* the awaited Promise.race: pending, ok or its error
     inLines      |-> FALSE,      \* readline is inside its loop over one chunk's lines
     finished     |-> FALSE,
     responseText |-> <<>>,
     usage        |-> NoUsage,
     agentMessages |-> <<>>,      \* event.messages of the last agent_end
     outcome      |-> "none",     \* what sendToAgent did: none, ok or the error thrown
     endPc        |-> "none",     \* the step sendToAgent was in when it returned or threw
     response     |-> <<>>,       \* the response it returned
     cleanups     |-> 0,          \* how often the finally block ran
     askOutcome   |-> "none"]     \* what cmdAsk did: none, ok or the error thrown

InTurn(t) == t.pc \in {"handshake", "prompting", "streaming"}

\* the awaited race is settled: the continuation of sendToAgent is a queued microtask
ResumeEnabled(t) == InTurn(t) /\ t.race \notin {"none", "pending"}

\* a macrotask (timer, process event, new chunk) runs only once microtasks are drained
MacroTask(t) == InTurn(t) /\ ~ResumeEnabled(t)

\* readline emits a line: a new chunk, or the next line of the chunk being looped over
CanEmitLine(t) == InTurn(t) /\ ~t.rlClosed /\ (ResumeEnabled(t) => t.inLines)

(***************************************************************************)
(* Promises and the timer.                                                 *)
(***************************************************************************)
\* a faulty variant: the last rejection wins, also over a resolution
rejectDoneOverSettled(t, e) ==
    [t EXCEPT !.doneP = e,
              !.race = IF t.pc = "streaming" /\ t.race \in {"pending", "ok"} \cup AbortErrors
                       THEN e ELSE @]

\* rejectDone(e): donePromise is awaited (raced) only in the streaming step
rejectDone(t, e) ==
    IF t.doneP # "pending" THEN t
    ELSE [t EXCEPT !.doneP = e,
                   !.race = IF t.pc = "streaming" /\ t.race = "pending" THEN e ELSE @]

\* a faulty variant: agent_end makes the turn a success whatever came before
resolveDoneOverRejection(t) ==
    [t EXCEPT !.doneP = "resolved",
              !.race = IF t.pc = "streaming" /\ t.race \in {"pending"} \cup AbortErrors
                       THEN "ok" ELSE @]

resolveDone(t) ==
    IF t.doneP # "pending" THEN t
    ELSE [t EXCEPT !.doneP = "resolved",
                   !.race = IF t.pc = "streaming" /\ t.race = "pending" THEN "ok" ELSE @]

\* resetTimeout(): clearTimeout(timeoutHandle), then a new timer of the full timeout
resetTimeout(t) == [t EXCEPT !.timer = Timeout, !.timerMsg = "TimeoutInactivity"]

\* sendCommand(command): the next id, one line on stdin, one entry in pending
sendCommand(t) ==
    [t EXCEPT !.reqId = @ + 1,
              !.pending = @ \cup {t.reqId + 1},
              !.cmdP = [@ EXCEPT ![t.reqId + 1] = "pending"]]

\* the command promise the current step races against timeoutPromise
AwaitedCmd(t) == IF t.pc = "handshake" THEN 1 ELSE IF t.pc = "prompting" THEN 2 ELSE 0

(***************************************************************************)
(* rl.on("line"): the handlers, one per event type.                        *)
(***************************************************************************)
\* a faulty variant: a response settles the awaited command whatever id it carries
onResponseAnyId(t, id, success) ==
    LET a == AwaitedCmd(t)
        waiter == a # 0 /\ a \in t.pending
        t1 == [t EXCEPT !.pending = IF waiter THEN @ \ {a} ELSE @]
    IN
    IF waiter
    THEN [t1 EXCEPT !.cmdP = [@ EXCEPT ![a] = IF success THEN "resolved" ELSE "rejected"],
                    !.race = IF t.race = "pending"
                             THEN (IF success THEN "ok" ELSE "ResponseError")
                             ELSE @]
    ELSE IF ~success THEN rejectDone(t1, "UntrackedResponse")
    ELSE t1

\* event.type === "response"; id 0 stands for a response without id
onResponse(t, id, success) ==
    LET waiter == id # 0 /\ id \in t.pending
        t1 == [t EXCEPT !.pending = IF id # 0 THEN @ \ {id} ELSE @]
    IN
    IF waiter
    THEN [t1 EXCEPT !.cmdP = [@ EXCEPT ![id] = IF success THEN "resolved" ELSE "rejected"],
                    !.race = IF AwaitedCmd(t) = id /\ t.race = "pending"
                             THEN (IF success THEN "ok" ELSE "ResponseError")
                             ELSE @]
    ELSE IF ~success THEN rejectDone(t1, "UntrackedResponse")
    ELSE t1

\* a faulty variant: a text fragment is put in front of the text so far
onMessageUpdatePrepend(t, deltaType, delta) ==
    CASE deltaType = "text_delta" ->
            resetTimeout([t EXCEPT !.responseText = delta \o @])
      [] deltaType = "thinking_delta" -> resetTimeout(t)
      [] deltaType = "error" -> rejectDone(t, "StreamError")
      [] OTHER -> t

\* event.type === "message_update"
onMessageUpdate(t, deltaType, delta) ==
    CASE deltaType = "text_delta" ->
            resetTimeout([t EXCEPT !.responseText = @ \o delta])
      [] deltaType = "thinking_delta" -> resetTimeout(t)
      [] deltaType = "error" -> rejectDone(t, "StreamError")
      [] OTHER -> t

\* the status message_update writes to the progress file
progressOnMessageUpdate(p, deltaType) ==
    CASE deltaType = "text_delta" -> "streaming"
      [] deltaType = "thinking_delta" -> "thinking"
      [] OTHER -> p

\* event.type === "message_end"
onMessageEnd(t, hasErrorMessage) ==
    IF hasErrorMessage THEN rejectDone(t, "MessageError") ELSE t

\* a faulty variant: the tool event does not touch the timer
onToolStartNoReset(t) == t

\* event.type === "tool_execution_start"
onToolStart(t) == resetTimeout(t)

\* a faulty variant: only the start of a tool execution restarts the timer
onToolUpdateOrEndNoReset(t) == t

\* event.type === "tool_execution_update" || "tool_execution_end"
onToolUpdateOrEnd(t) == resetTimeout(t)

\* event.type === "hook_error"
onHookError(t) == rejectDone(t, "HookError")

(***************************************************************************)
(* agent_end: the terminal message list.                                   *)
(* A message is [role, hasUsage, input, output, cost, ckind, text, parts]: *)
(* ckind says whether content is a string (text), a list of parts (parts,  *)
(* each [type, hasText, text]) or something else.  cost is usage.cost.total*)
(* in hundredths.                                                          *)
(***************************************************************************)
Msg(role, hasUsage, input, output, cost, ckind, text, parts) ==
    [role |-> role, hasUsage |-> hasUsage, input |-> input, output |-> output,
     cost |-> cost, ckind |-> ckind, text |-> text, parts |-> parts]
TextPart(text) == [type |-> "text", hasText |-> TRUE, text |-> text]
ImagePart == [type |-> "image", hasText |-> FALSE, text |-> <<>>]

MsgUser == Msg("user", FALSE, 0, 0, 0, "string", <<"q">>, <<>>)
MsgToolResult == Msg("toolResult", TRUE, 7, 7, 7, "parts", <<>>, <<TextPart(<<"r">>)>>)
MsgAsstParts == Msg("assistant", TRUE, 10, 5, 1, "parts", <<>>,
                    <<TextPart(<<"A">>), ImagePart, TextPart(<<"B">>)>>)
MsgAsstString == Msg("assistant", TRUE, 20, 8, 2, "string", <<" ", "S", " ">>, <<>>)
MsgAsstOther == Msg("assistant", FALSE, 0, 0, 0, "other", <<>>, <<>>)

\* the message lists the subordinate sends with agent_end
MessageLists ==
    { <<>>,
      <<MsgUser, MsgAsstParts>>,
      <<MsgUser, MsgAsstParts, MsgToolResult, MsgAsstString>>,
      <<MsgUser, MsgAsstString, MsgAsstOther, MsgToolResult>> }

\* content.filter(c => c?.type === "text" && typeof c.text === "string").map(c => c.text)
RECURSIVE TextsOf(_)
TextsOf(parts) ==
    IF parts = <<>> THEN <<>>
    ELSE IF Head(parts).type = "text" /\ Head(parts).hasText
    THEN <<Head(parts).text>> \o TextsOf(Tail(parts))
    ELSE TextsOf(Tail(parts))

\* extractTextFromMessage(message); found is FALSE for an undefined message
extractTextFromMessage(found, message) ==
    IF ~found THEN <<>>
    ELSE IF message.ckind = "string" THEN message.text
    ELSE IF message.ckind = "parts" THEN Join(TextsOf(message.parts), <<"\n", "\n">>)
    ELSE <<>>

\* a faulty variant: the first assistant message is taken
FirstAssistant(msgs) ==
    LET idx == {i \in 1..Len(msgs) : msgs[i].role = "assistant"}
    IN IF idx = {} THEN 0 ELSE CHOOSE i \in idx : \A j \in idx : i <= j

\* the index of [...agentMessages].reverse().find(m => m?.role === "assistant"), 0 if none
LastAssistant(msgs) ==
    LET idx == {i \in 1..Len(msgs) : msgs[i].role = "assistant"}
    IN IF idx = {} THEN 0 ELSE CHOOSE i \in idx : \A j \in idx : j <= i

\* a faulty variant: only the last assistant message is counted
SumUsageLastOnly(msgs, acc) ==
    LET la == LastAssistant(msgs) IN
    IF la # 0 /\ msgs[la].hasUsage
    THEN [acc EXCEPT !.input = msgs[la].input, !.output = msgs[la].output,
                     !.cost = msgs[la].cost]
    ELSE acc

\* the loop over agentMessages that accumulates usage
RECURSIVE SumUsage(_, _)
SumUsage(msgs, acc) ==
    IF msgs = <<>> THEN acc
    ELSE LET m == Head(msgs) IN
         SumUsage(Tail(msgs),
                  IF m.role = "assistant" /\ m.hasUsage
                  THEN [acc EXCEPT !.input = @ + m.input, !.output = @ + m.output,
                                   !.cost = @ + m.cost]
                  ELSE acc)

\* event.type === "agent_end"
onAgentEnd(t, msgs) ==
    LET la == LastAssistant(msgs)
        text == IF Trim(t.responseText) = <<>>
                THEN extractTextFromMessage(la # 0, IF la # 0 THEN msgs[la] ELSE MsgUser)
                ELSE t.responseText
    IN resolveDone([t EXCEPT !.agentMessages = msgs,
                             !.usage = SumUsage(msgs, [NoUsage EXCEPT !.set = TRUE]),
                             !.responseText = text,
                             !.finished = TRUE])

\* proc.on("exit")
onExit(t) ==
    LET t1 == [t EXCEPT !.proc = "exited"]
    IN IF ~t.finished THEN rejectDone(t1, "ProcessExit") ELSE t1

\* a faulty variant: the callback starts another timer instead of rejecting
onTimerRearm(t) == [t EXCEPT !.timer = Timeout]

\* a faulty variant: the callback rejects a promise that is not in the race
onTimerUnraced(t) == [t EXCEPT !.timer = -1, !.timeoutP = t.timerMsg]

\* the setTimeout callback of timeoutPromise / resetTimeout
onTimer(t) ==
    [t EXCEPT !.timer = -1,
              !.timeoutP = t.timerMsg,
              !.race = IF t.race = "pending" THEN t.timerMsg ELSE @]

(***************************************************************************)
(* sendToAgent: its synchronous start, its continuations and its cleanup.  *)
(***************************************************************************)
\* a faulty variant: no timer is started with the turn
beginTurnNoTimer(sessionId, caller) ==
    LET t0 == [IdleTurn EXCEPT !.caller = caller, !.sessionId = sessionId,
                               !.proc = "running", !.timer = -1,
                               !.pc = "handshake", !.race = "pending"]
    IN sendCommand(t0)

\* lines 143-343: writeProgress, spawn, the promises, the timer, get_state
beginTurn(sessionId, caller) ==
    LET t0 == [IdleTurn EXCEPT !.caller = caller, !.sessionId = sessionId,
                               !.proc = "running", !.timer = Timeout,
                               !.pc = "handshake", !.race = "pending"]
    IN sendCommand(t0)

\* clearTimeout(timeoutHandle)
clearTimeout(t) == [t EXCEPT !.timer = -1]

\* proc.kill("SIGTERM"): delivers the signal unless the process is gone
kill(t) == [t EXCEPT !.sigterm = IF t.proc = "running" THEN "sent" ELSE "noproc"]

\* the finally block of sendToAgent (clearProgress is in the action)
cleanup(t) ==
    LET t1 == clearTimeout(t)
        t2 == [t1 EXCEPT !.rlClosed = TRUE, !.stdinEnded = TRUE]
    IN [kill(t2) EXCEPT !.cleanups = @ + 1, !.inLines = FALSE]

\* clearProgress()
clearProgress(p) == "absent"

\* await of the handshake race resolved: send the prompt, race it
afterHandshake(t) ==
    [sendCommand(t) EXCEPT !.pc = "prompting", !.race = "pending", !.inLines = FALSE]

\* a variant: the timer is started afresh when the prompt is acknowledged
afterPromptRearm(t) ==
    [resetTimeout(t) EXCEPT !.pc = "streaming", !.inLines = FALSE,
              !.race = IF t.doneP = "resolved" THEN "ok"
                       ELSE IF t.doneP # "pending" THEN t.doneP
                       ELSE "pending"]

\* await of the prompt race resolved: race donePromise against timeoutPromise
afterPrompt(t) ==
    [t EXCEPT !.pc = "streaming", !.inLines = FALSE,
              !.race = IF t.doneP = "resolved" THEN "ok"
                       ELSE IF t.doneP # "pending" THEN t.doneP
                       ELSE "pending"]

\* return { response: responseText.trim(), usage }, through finally
returnResult(t) ==
    [cleanup(t) EXCEPT !.pc = "done", !.outcome = "ok", !.endPc = t.pc,
                       !.response = Trim(t.responseText)]

\* a faulty variant: the cleanup sits after the awaits instead of in a finally block
throwErrorNoFinally(t) == [t EXCEPT !.pc = "done", !.outcome = t.race, !.endPc = t.pc]

\* an awaited race rejected: the error leaves sendToAgent through finally
throwError(t) == [cleanup(t) EXCEPT !.pc = "done", !.outcome = t.race, !.endPc = t.pc]

(***************************************************************************)
(* The initial state: an empty session directory, no progress file, no     *)
(* command running.                                                        *)
(***************************************************************************)
NoCommand == [op |-> "none", arg |-> <<>>, model |-> <<>>, err |-> "none",
              ret |-> <<>>, usage |-> NoUsage, crashed |-> FALSE,
              before |-> [info |-> FALSE, transcript |-> FALSE]]

\* the report of a command; before: which files of the session named by arg existed
\* when the command started
Report(op, arg, model, err, ret) ==
    [op |-> op, arg |-> arg, model |-> model, err |-> err, ret |-> ret,
     usage |-> NoUsage, crashed |-> FALSE,
     before |-> [info |-> arg \in DOMAIN infoFiles, transcript |-> arg \in sessionFiles]]

ObsStart == [idle |-> 0, elapsed |-> 0, step |-> 0,
             streamed |-> <<>>, ends |-> 0, late |-> FALSE]

\* the processes that run at the same time
Callers == 1..2

\* a process that has not been started, or has exited
IdleCall ==
    [op     |-> "none",    \* start, end, purge or send
     arg    |-> <<>>,      \* the name or session id it was given
     pc     |-> "idle",    \* the statement it is at; done: main has printed the result
     err    |-> "none",    \* the error it ended with
     info   |-> <<>>,      \* the local variable info
     exists |-> FALSE,     \* what its last fs.existsSync returned
     turn   |-> IdleTurn]  \* the locals of its sendToAgent call

NoCalls == [c \in Callers |-> IdleCall]

Init ==
    /\ infoFiles = <<>>
    /\ sessionFiles = {}
    /\ last = NoCommand
    /\ progress = "absent"
    /\ turn = IdleTurn
    /\ obs = ObsStart
    /\ calls = NoCalls

(***************************************************************************)
(* Commands that do not run a turn: one command line invocation each.      *)
(***************************************************************************)
\* pi-consult start -m <model> [-n <name>]; an empty name is no name
Start(name, model) ==
    /\ turn.pc = "idle"
    /\ \E u \in UUIDs :
          LET r == cmdStart(infoFiles, model, name, u) IN
          /\ r.err = "none" /\ name = <<>> => ~InfoExists(infoFiles, u)
          /\ infoFiles' = r.files
          /\ last' = Report("start", name, model, r.err, r.id)
    /\ UNCHANGED <<sessionFiles, progress, turn, obs>>
    /\ UNCHANGED calls

\* pi-consult end -s <session>
End(sessionId) ==
    /\ turn.pc = "idle"
    /\ LET r == closeSession(infoFiles, sessionId) IN
          /\ infoFiles' = r.files
          /\ last' = Report("end", sessionId, <<>>, r.err, <<>>)
    /\ UNCHANGED <<sessionFiles, progress, turn, obs>>
    /\ UNCHANGED calls

\* pi-consult purge -s <session>
Purge(sessionId) ==
    /\ turn.pc = "idle"
    /\ LET r == purgeSession(infoFiles, sessionFiles, sessionId) IN
          /\ infoFiles' = r.files
          /\ sessionFiles' = r.sfiles
          /\ last' = Report("purge", sessionId, <<>>, r.err, <<>>)
    /\ UNCHANGED <<progress, turn, obs>>
    /\ UNCHANGED calls

\* pi-consult list
List ==
    /\ turn.pc = "idle"
    /\ last' = Report("list", <<>>, <<>>, "none", cmdList(infoFiles))
    /\ UNCHANGED <<infoFiles, sessionFiles, progress, turn, obs>>
    /\ UNCHANGED calls

(***************************************************************************)
(* Commands that run a turn.                                               *)
(***************************************************************************)
\* a faulty variant: the progress file is written before the session is loaded
SendStartProgressFirst(sessionId) ==
    /\ turn.pc = "idle"
    /\ LET l == loadSessionInfo(infoFiles, sessionId) IN
          IF l.err # "none"
          THEN /\ last' = Report("send", sessionId, <<>>, l.err, <<>>)
               /\ progress' = "thinking"
               /\ UNCHANGED <<turn, obs>>
          ELSE /\ turn' = beginTurn(l.info.id, "send")
               /\ progress' = "thinking"
               /\ obs' = ObsStart
               /\ last' = Report("send", sessionId, <<>>, "running", <<>>)
    /\ UNCHANGED <<infoFiles, sessionFiles>>
    /\ UNCHANGED calls

\* pi-consult send -s <session> <message>: cmdSend up to the first await
SendStart(sessionId) ==
    /\ turn.pc = "idle"
    /\ LET l == loadSessionInfo(infoFiles, sessionId) IN
          IF l.err # "none"
          THEN /\ last' = Report("send", sessionId, <<>>, l.err, <<>>)
               /\ UNCHANGED <<progress, turn, obs>>
          ELSE /\ turn' = beginTurn(l.info.id, "send")
               /\ progress' = "thinking"
               /\ obs' = ObsStart
               /\ last' = Report("send", sessionId, <<>>, "running", <<>>)
    /\ UNCHANGED <<infoFiles, sessionFiles>>
    /\ UNCHANGED calls

\* pi-consult ask -m <model> <message>: cmdStart without a name, then cmdSend
AskStart(model) ==
    /\ turn.pc = "idle"
    /\ \E u \in UUIDs :
          LET r == cmdStart(infoFiles, model, <<>>, u) IN
          /\ r.err = "none" => ~InfoExists(infoFiles, u)
          /\ infoFiles' = r.files
          /\ IF r.err # "none"
             THEN /\ last' = Report("ask", <<>>, model, r.err, <<>>)
                  /\ UNCHANGED <<progress, turn, obs>>
             ELSE /\ turn' = beginTurn(loadSessionInfo(r.files, r.id).info.id, "ask")
                  /\ progress' = "thinking"
                  /\ obs' = ObsStart
                  /\ last' = Report("ask", r.id, model, "running", <<>>)
    /\ UNCHANGED sessionFiles
    /\ UNCHANGED calls

(***************************************************************************)
(* The subordinate's output, one line at a time.                           *)
(***************************************************************************)
\* after a handler returns readline goes on with the chunk's next line, if the
\* continuation of sendToAgent is queued it runs when the chunk is through
AfterLine(t) == [t EXCEPT !.inLines = ResumeEnabled(t)]

Active(o) == [o EXCEPT !.idle = 0]

\* the observer's note of a text_delta: the fragment, and whether an agent_end came
\* before it
Streamed(o, delta) ==
    [o EXCEPT !.streamed = @ \o delta, !.late = @ \/ o.ends > 0]

\* the observer's clocks one unit of time later
Later(c) == IF c > Timeout THEN c ELSE c + 1

\* response ids: 0 for none, 1 and 2 for req-1 and req-2, 3 for an id never sent
ResponseIds == 0..3

LineResponse(id, success) ==
    /\ CanEmitLine(turn)
    /\ turn' = AfterLine(onResponse(turn, id, success))
    /\ UNCHANGED <<infoFiles, sessionFiles, last, progress, obs>>
    /\ UNCHANGED calls

DeltaTypes == {"text_delta", "thinking_delta", "error", "toolcall_delta"}
Fragments == {<<" ">>, <<"H">>}

\* a message_update line is processed (what the observer notes is left open)
MessageUpdate(deltaType, delta) ==
    /\ CanEmitLine(turn)
    /\ turn' = AfterLine(onMessageUpdate(turn, deltaType, delta))
    /\ progress' = progressOnMessageUpdate(progress, deltaType)
    /\ UNCHANGED <<infoFiles, sessionFiles, last>>
    /\ UNCHANGED calls

LineMessageUpdate(deltaType, delta) ==
    /\ deltaType = "text_delta" => Len(turn.responseText) + Len(delta) <= MaxText
    /\ MessageUpdate(deltaType, delta)
    /\ obs' = IF deltaType \in {"text_delta", "thinking_delta"} THEN Active(obs) ELSE obs

\* a text_delta line is processed and the observer notes its fragment
NotedTextDelta(delta) ==
    /\ Len(obs.streamed) + Len(delta) <= MaxStreamed
    /\ MessageUpdate("text_delta", delta)
    /\ obs' = Streamed(Active(obs), delta)

LineMessageEnd(hasErrorMessage) ==
    /\ CanEmitLine(turn)
    /\ turn' = AfterLine(onMessageEnd(turn, hasErrorMessage))
    /\ UNCHANGED <<infoFiles, sessionFiles, last, progress, obs>>
    /\ UNCHANGED calls

LineToolStart ==
    /\ CanEmitLine(turn)
    /\ turn' = AfterLine(onToolStart(turn))
    /\ progress' = "tool"
    /\ obs' = Active(obs)
    /\ UNCHANGED <<infoFiles, sessionFiles, last>>
    /\ UNCHANGED calls

LineToolUpdateOrEnd ==
    /\ CanEmitLine(turn)
    /\ turn' = AfterLine(onToolUpdateOrEnd(turn))
    /\ obs' = Active(obs)
    /\ UNCHANGED <<infoFiles, sessionFiles, last, progress>>
    /\ UNCHANGED calls

\* an agent_end line is processed (what the observer notes is left open)
AgentEnd(msgs) ==
    /\ CanEmitLine(turn)
    /\ turn' = AfterLine(onAgentEnd(turn, msgs))
    /\ UNCHANGED <<infoFiles, sessionFiles, last, progress>>
    /\ UNCHANGED calls

LineAgentEnd(msgs) == AgentEnd(msgs) /\ UNCHANGED obs

\* an agent_end line is processed and the observer counts it, up to two
NotedAgentEnd(msgs) ==
    /\ obs.ends < 2
    /\ AgentEnd(msgs)
    /\ obs' = [obs EXCEPT !.ends = @ + 1]

LineHookError ==
    /\ CanEmitLine(turn)
    /\ turn' = AfterLine(onHookError(turn))
    /\ UNCHANGED <<infoFiles, sessionFiles, last, progress, obs>>
    /\ UNCHANGED calls

\* a line that is not JSON, or an event of a type no branch handles
LineIgnored ==
    /\ CanEmitLine(turn)
    /\ turn' = AfterLine(turn)
    /\ UNCHANGED <<infoFiles, sessionFiles, last, progress, obs>>
    /\ UNCHANGED calls

(***************************************************************************)
(* The subordinate process and the clock.                                  *)
(***************************************************************************)
\* the subordinate exits by itself: the exit event
ProcExit ==
    /\ MacroTask(turn)
    /\ turn.proc = "running"
    /\ turn' = onExit(turn)
    /\ UNCHANGED <<infoFiles, sessionFiles, last, progress, obs>>
    /\ UNCHANGED calls

\* stdout of the exited subordinate ends: readline closes itself
StdoutEnd ==
    /\ MacroTask(turn)
    /\ turn.proc = "exited"
    /\ ~turn.rlClosed
    /\ turn' = [turn EXCEPT !.rlClosed = TRUE]
    /\ UNCHANGED <<infoFiles, sessionFiles, last, progress, obs>>
    /\ UNCHANGED calls

\* the subordinate creates or appends to the transcript it was given with --session
ChildWritesTranscript ==
    /\ InTurn(turn)
    /\ turn.proc = "running"
    /\ turn.sessionId \notin sessionFiles
    /\ sessionFiles' = sessionFiles \cup {turn.sessionId}
    /\ UNCHANGED <<infoFiles, last, progress, turn, obs>>
    /\ UNCHANGED calls

\* one unit of time passes; a timer that is due fires first
TimePasses ==
    /\ MacroTask(turn)
    /\ turn.timer > 0
    /\ turn' = [turn EXCEPT !.timer = @ - 1]
    /\ UNCHANGED <<infoFiles, sessionFiles, last, progress>>
    /\ UNCHANGED calls

Tick == TimePasses /\ obs' = [obs EXCEPT !.idle = Later(@), !.elapsed = Later(@)]

\* one unit of time passes and the observer also times the step sendToAgent is in
StepTick ==
    /\ TimePasses
    /\ obs' = [obs EXCEPT !.idle = Later(@), !.elapsed = Later(@), !.step = Later(@)]

TimerFire ==
    /\ MacroTask(turn)
    /\ turn.timer = 0
    /\ turn' = onTimer(turn)
    /\ UNCHANGED <<infoFiles, sessionFiles, last, progress, obs>>
    /\ UNCHANGED calls

(***************************************************************************)
(* The continuations of sendToAgent, run as microtasks.                    *)
(***************************************************************************)
\* a faulty variant: the prompt is sent however the handshake race ended
ResumeAfterHandshakeAnyway ==
    /\ turn.pc = "handshake" /\ turn.race \notin {"none", "pending"}
    /\ turn' = afterHandshake(turn)
    /\ obs' = [obs EXCEPT !.step = 0]
    /\ UNCHANGED <<infoFiles, sessionFiles, last, progress>>
    /\ UNCHANGED calls

ResumeAfterHandshake ==
    /\ turn.pc = "handshake" /\ turn.race = "ok"
    /\ turn' = afterHandshake(turn)
    /\ obs' = [obs EXCEPT !.step = 0]
    /\ UNCHANGED <<infoFiles, sessionFiles, last, progress>>
    /\ UNCHANGED calls

ResumeAfterPrompt ==
    /\ turn.pc = "prompting" /\ turn.race = "ok"
    /\ turn' = afterPrompt(turn)
    /\ obs' = [obs EXCEPT !.step = 0]
    /\ UNCHANGED <<infoFiles, sessionFiles, last, progress>>
    /\ UNCHANGED calls

ReturnResult ==
    /\ turn.pc = "streaming" /\ turn.race = "ok"
    /\ turn' = returnResult(turn)
    /\ progress' = clearProgress(progress)
    /\ UNCHANGED <<infoFiles, sessionFiles, last, obs>>
    /\ UNCHANGED calls

\* a faulty variant: a failed turn is recorded in the session's metadata
ThrowErrorMarksSession ==
    /\ InTurn(turn) /\ turn.race \in TurnErrors
    /\ turn' = throwError(turn)
    /\ progress' = clearProgress(progress)
    /\ infoFiles' = [infoFiles EXCEPT ![turn.sessionId].status = "closed"]
    /\ UNCHANGED <<sessionFiles, last, obs>>
    /\ UNCHANGED calls

ThrowError ==
    /\ InTurn(turn) /\ turn.race \in TurnErrors
    /\ turn' = throwError(turn)
    /\ progress' = clearProgress(progress)
    /\ UNCHANGED <<infoFiles, sessionFiles, last, obs>>
    /\ UNCHANGED calls

\* donePromise was rejected while nothing awaits it (it is raced only from line
\* 349 on) and the microtasks are drained: the runtime may report the rejection
\* as unhandled and end the controller, in which case no finally block runs
UnhandledRejection ==
    /\ MacroTask(turn)
    /\ turn.pc \in {"handshake", "prompting"}
    /\ turn.doneP \in AbortErrors
    /\ turn' = [turn EXCEPT !.pc = "crashed", !.outcome = turn.doneP]
    /\ UNCHANGED <<infoFiles, sessionFiles, last, progress, obs>>
    /\ UNCHANGED calls

\* a faulty variant: cmdEnd follows the await of cmdSend without a finally block
askFinallyOnSuccess(files, t) ==
    IF t.outcome = "ok"
    THEN [files |-> closeSession(files, t.sessionId).files, askOutcome |-> "ok"]
    ELSE [files |-> files, askOutcome |-> t.outcome]

\* cmdAsk: try { return await cmdSend(...) } finally { cmdEnd(sessionId) }; an error
\* thrown by cmdEnd replaces the result or error of cmdSend
askFinally(files, t) ==
    LET r == closeSession(files, t.sessionId)
    IN [files |-> r.files,
        askOutcome |-> IF r.err # "none" THEN r.err ELSE t.outcome]

AskFinally ==
    /\ turn.pc = "done" /\ turn.caller = "ask"
    /\ LET r == askFinally(infoFiles, turn) IN
          /\ infoFiles' = r.files
          /\ turn' = [turn EXCEPT !.pc = "askdone", !.askOutcome = r.askOutcome]
    /\ UNCHANGED <<sessionFiles, last, progress, obs>>
    /\ UNCHANGED calls

\* what the command line invocation ends with
FinalOutcome(t) == IF t.pc = "askdone" THEN t.askOutcome ELSE t.outcome

\* main prints the result or the error and the controller exits
CliExit ==
    /\ \/ turn.pc = "done" /\ turn.caller = "send"
       \/ turn.pc = "askdone"
       \/ turn.pc = "crashed"
    /\ last' = [last EXCEPT
                  !.err = IF FinalOutcome(turn) = "ok" THEN "none" ELSE FinalOutcome(turn),
                  !.ret = IF FinalOutcome(turn) = "ok" THEN turn.response ELSE <<>>,
                  !.usage = IF FinalOutcome(turn) = "ok" THEN turn.usage ELSE NoUsage,
                  !.crashed = turn.pc = "crashed"]
    /\ turn' = IdleTurn
    /\ obs' = ObsStart
    /\ UNCHANGED <<infoFiles, sessionFiles, progress>>
    /\ UNCHANGED calls

(***************************************************************************)
(* start, end and purge run by processes at the same time: one action per  *)
(* file system call, so that the calls of two processes interleave.        *)
(***************************************************************************)
\* cmdStart up to the existence check of the name; info is the record it will write
CallStartCheck(c, name, model) ==
    /\ calls[c].pc = "idle"
    /\ LET r == cmdStart(infoFiles, model, name, MkUUID(c)) IN
          calls' = [calls EXCEPT ![c] =
                      IF r.err # "none"
                      THEN [IdleCall EXCEPT !.op = "start", !.arg = name,
                                            !.pc = "done", !.err = r.err]
                      ELSE [IdleCall EXCEPT !.op = "start", !.arg = r.id,
                                            !.pc = "checked", !.info = r.files[r.id]]]
    /\ UNCHANGED <<infoFiles, sessionFiles, last, progress, turn, obs>>

\* cmdStart: saveSessionInfo(info), and main prints the id
CallStartWrite(c) ==
    /\ calls[c].op = "start" /\ calls[c].pc = "checked"
    /\ infoFiles' = saveSessionInfo(infoFiles, calls[c].info)
    /\ calls' = [calls EXCEPT ![c].pc = "done"]
    /\ UNCHANGED <<sessionFiles, last, progress, turn, obs>>

\* closeSession: validateSessionId and, in loadSessionInfo, fs.existsSync(infoPath)
CallEndExists(c, sessionId) ==
    /\ calls[c].pc = "idle"
    /\ LET l == loadSessionInfo(infoFiles, sessionId) IN
          calls' = [calls EXCEPT ![c] =
                      IF l.err # "none"
                      THEN [IdleCall EXCEPT !.op = "end", !.arg = sessionId,
                                            !.pc = "done", !.err = l.err]
                      ELSE [IdleCall EXCEPT !.op = "end", !.arg = sessionId,
                                            !.pc = "exists", !.exists = TRUE]]
    /\ UNCHANGED <<infoFiles, sessionFiles, last, progress, turn, obs>>

\* loadSessionInfo: fs.readFileSync(infoPath), which throws when the file is gone
CallEndRead(c) ==
    /\ calls[c].op = "end" /\ calls[c].pc = "exists"
    /\ calls' = [calls EXCEPT ![c] =
                   IF InfoExists(infoFiles, calls[c].arg)
                   THEN [@ EXCEPT !.pc = "loaded", !.info = infoFiles[calls[c].arg]]
                   ELSE [@ EXCEPT !.pc = "done", !.err = "ENOENT"]]
    /\ UNCHANGED <<infoFiles, sessionFiles, last, progress, turn, obs>>

\* closeSession: status = "closed" and saveSessionInfo(info)
CallEndSave(c) ==
    /\ calls[c].op = "end" /\ calls[c].pc = "loaded"
    /\ infoFiles' = saveSessionInfo(infoFiles, [calls[c].info EXCEPT !.status = "closed"])
    /\ calls' = [calls EXCEPT ![c].pc = "done"]
    /\ UNCHANGED <<sessionFiles, last, progress, turn, obs>>

\* purgeSession: validateSessionId and fs.existsSync(infoPath)
CallPurgeInfoExists(c, sessionId) ==
    /\ calls[c].pc = "idle"
    /\ calls' = [calls EXCEPT ![c] =
                   IF validateSessionId(sessionId) # "none"
                   THEN [IdleCall EXCEPT !.op = "purge", !.arg = sessionId, !.pc = "done",
                                         !.err = validateSessionId(sessionId)]
                   ELSE [IdleCall EXCEPT !.op = "purge", !.arg = sessionId,
                                         !.pc = "unlinkInfo",
                                         !.exists = InfoExists(infoFiles, sessionId)]]
    /\ UNCHANGED <<infoFiles, sessionFiles, last, progress, turn, obs>>

\* purgeSession: fs.unlinkSync(infoPath) if it existed, throwing when it is gone
CallPurgeInfoUnlink(c) ==
    /\ calls[c].op = "purge" /\ calls[c].pc = "unlinkInfo"
    /\ IF calls[c].exists /\ ~InfoExists(infoFiles, calls[c].arg)
       THEN /\ calls' = [calls EXCEPT ![c].pc = "done", ![c].err = "ENOENT"]
            /\ UNCHANGED infoFiles
       ELSE /\ calls' = [calls EXCEPT ![c].pc = "fileExists"]
            /\ infoFiles' = IF calls[c].exists
                             THEN UnlinkInfo(infoFiles, calls[c].arg) ELSE infoFiles
    /\ UNCHANGED <<sessionFiles, last, progress, turn, obs>>

\* purgeSession: fs.existsSync(sessionFile)
CallPurgeFileExists(c) ==
    /\ calls[c].op = "purge" /\ calls[c].pc = "fileExists"
    /\ calls' = [calls EXCEPT ![c].pc = "unlinkFile",
                              ![c].exists = calls[c].arg \in sessionFiles]
    /\ UNCHANGED <<infoFiles, sessionFiles, last, progress, turn, obs>>

\* purgeSession: fs.unlinkSync(sessionFile) if it existed, throwing when it is gone
CallPurgeFileUnlink(c) ==
    /\ calls[c].op = "purge" /\ calls[c].pc = "unlinkFile"
    /\ calls' = [calls EXCEPT ![c].pc = "done",
                              ![c].err = IF calls[c].exists /\ calls[c].arg \notin sessionFiles
                                         THEN "ENOENT" ELSE "none"]
    /\ sessionFiles' = IF calls[c].exists THEN sessionFiles \ {calls[c].arg}
                                          ELSE sessionFiles
    /\ UNCHANGED <<infoFiles, last, progress, turn, obs>>

(***************************************************************************)
(* send run by processes at the same time.  Each has a subordinate and a   *)
(* line handler of its own; all write and delete the one progress file.    *)
(***************************************************************************)
\* a decoded line: event.type and the fields the handler looks at
Event(type, id, success, deltaType, delta, messages) ==
    [type |-> type, id |-> id, success |-> success,
     deltaType |-> deltaType, delta |-> delta, messages |-> messages]

\* rl.on("line"): the chain of tests on event.type
onLine(t, e) ==
    CASE e.type = "response" -> onResponse(t, e.id, e.success)
      [] e.type = "message_update" -> onMessageUpdate(t, e.deltaType, e.delta)
      [] e.type = "tool_execution_start" -> onToolStart(t)
      [] e.type = "agent_end" -> onAgentEnd(t, e.messages)
      [] e.type = "hook_error" -> onHookError(t)
      [] OTHER -> t

\* what the handler of the line writes to the progress file
progressOnLine(p, e) ==
    CASE e.type = "message_update" -> progressOnMessageUpdate(p, e.deltaType)
      [] e.type = "tool_execution_start" -> "tool"
      [] OTHER -> p

\* the lines the subordinate of a turn sends
PairEvents(t) ==
    {Event("response", id, TRUE, "", <<>>, <<>>) : id \in t.pending}
    \cup {Event("message_update", 0, TRUE, d, <<>>, <<>>) :
             d \in {"text_delta", "thinking_delta"}}
    \cup {Event("tool_execution_start", 0, TRUE, "", <<>>, <<>>),
          Event("agent_end", 0, TRUE, "", <<>>, <<MsgUser, MsgAsstParts>>),
          Event("hook_error", 0, TRUE, "", <<>>, <<>>)}

\* cmdSend on the session a: loadSessionInfo, then sendToAgent up to its first await
CallSend(c) ==
    /\ calls[c].pc = "idle"
    /\ loadSessionInfo(infoFiles, NameA).err = "none"
    /\ calls' = [calls EXCEPT ![c] =
                   [IdleCall EXCEPT !.op = "send", !.arg = NameA, !.pc = "turn",
                                    !.turn = beginTurn(NameA, "send")]]
    /\ progress' = "thinking"
    /\ UNCHANGED <<infoFiles, sessionFiles, last, turn, obs>>

\* variant: the line handler stays subscribed after rl.close()
CallLineAfterClose(c) ==
    /\ calls[c].pc \in {"turn", "done"}
    /\ calls[c].pc = "turn" => CanEmitLine(calls[c].turn)
    /\ \E e \in PairEvents(calls[c].turn) :
          /\ calls' = [calls EXCEPT ![c].turn = AfterLine(onLine(calls[c].turn, e))]
          /\ progress' = progressOnLine(progress, e)
    /\ UNCHANGED <<infoFiles, sessionFiles, last, turn, obs>>

\* a line of the subordinate of c is processed
CallLine(c) ==
    /\ calls[c].pc = "turn"
    /\ CanEmitLine(calls[c].turn)
    /\ \E e \in PairEvents(calls[c].turn) :
          /\ calls' = [calls EXCEPT ![c].turn = AfterLine(onLine(calls[c].turn, e))]
          /\ progress' = progressOnLine(progress, e)
    /\ UNCHANGED <<infoFiles, sessionFiles, last, turn, obs>>

\* the timer of c fires, or its subordinate exits
CallTimerOrExit(c) ==
    /\ calls[c].pc = "turn"
    /\ MacroTask(calls[c].turn)
    /\ \/ calls[c].turn.timer >= 0 /\ calls' = [calls EXCEPT ![c].turn = onTimer(@)]
       \/ calls[c].turn.proc = "running" /\ calls' = [calls EXCEPT ![c].turn = onExit(@)]
    /\ UNCHANGED <<infoFiles, sessionFiles, last, progress, turn, obs>>

\* sendToAgent of c goes on after its first or its second await
CallResume(c) ==
    /\ calls[c].pc = "turn"
    /\ calls[c].turn.pc \in {"handshake", "prompting"}
    /\ calls[c].turn.race = "ok"
    /\ calls' = [calls EXCEPT ![c].turn = IF @.pc = "handshake" THEN afterHandshake(@)
                                                               ELSE afterPrompt(@)]
    /\ UNCHANGED <<infoFiles, sessionFiles, last, progress, turn, obs>>

\* the controller of c dies of the unhandled rejection of donePromise: its finally
\* block never runs
CallCrash(c) ==
    /\ calls[c].pc = "turn"
    /\ MacroTask(calls[c].turn)
    /\ calls[c].turn.pc \in {"handshake", "prompting"}
    /\ calls[c].turn.doneP \in AbortErrors
    /\ calls' = [calls EXCEPT ![c].pc = "crashed",
                              ![c].err = calls[c].turn.doneP,
                              ![c].turn.pc = "crashed"]
    /\ UNCHANGED <<infoFiles, sessionFiles, last, progress, turn, obs>>

\* the finally block of c, up to fs.existsSync(PROGRESS_FILE) in clearProgress
CallFinallyExists(c) ==
    /\ calls[c].pc = "turn"
    /\ ResumeEnabled(calls[c].turn)
    /\ calls[c].turn.pc = "streaming" \/ calls[c].turn.race # "ok"
    /\ calls' = [calls EXCEPT ![c].pc = "clearing",
                              ![c].exists = progress # "absent",
                              ![c].turn = clearTimeout(@)]
    /\ UNCHANGED <<infoFiles, sessionFiles, last, progress, turn, obs>>

\* the rest of the finally block of c: fs.unlinkSync(PROGRESS_FILE) if it existed
\* (an error is swallowed), rl.close(), stdin.end(), kill; sendToAgent returns or throws
CallFinallyUnlink(c) ==
    /\ calls[c].pc = "clearing"
    /\ progress' = IF calls[c].exists THEN clearProgress(progress) ELSE progress
    /\ calls' = [calls EXCEPT ![c].pc = "done",
                              ![c].err = IF calls[c].turn.race = "ok" THEN "none"
                                         ELSE calls[c].turn.race,
                              ![c].turn = IF @.race = "ok" THEN returnResult(@)
                                                           ELSE throwError(@)]
    /\ UNCHANGED <<infoFiles, sessionFiles, last, turn, obs>>

\* the process has printed its result or its error and exits
CallExit(c) ==
    /\ calls[c].pc = "done"
    /\ calls' = [calls EXCEPT ![c] = IdleCall]
    /\ UNCHANGED <<infoFiles, sessionFiles, last, progress, turn, obs>>

(***************************************************************************)
(* The specification: command line invocations run one after the other.    *)
(***************************************************************************)
SessionArgs == Names \cup UUIDs

Next ==
    \/ \E n \in Names, m \in Models : Start(n, m)
    \/ \E id \in SessionArgs : End(id)
    \/ \E id \in SessionArgs : Purge(id)
    \/ List
    \/ \E id \in SessionArgs : SendStart(id)
    \/ \E m \in Models : AskStart(m)
    \/ \E id \in ResponseIds, ok \in BOOLEAN : LineResponse(id, ok)
    \/ \E d \in DeltaTypes, f \in Fragments : LineMessageUpdate(d, f)
    \/ \E e \in BOOLEAN : LineMessageEnd(e)
    \/ LineToolStart
    \/ LineToolUpdateOrEnd
    \/ \E msgs \in MessageLists : LineAgentEnd(msgs)
    \/ LineHookError
    \/ LineIgnored
    \/ ProcExit
    \/ StdoutEnd
    \/ ChildWritesTranscript
    \/ Tick
    \/ TimerFire
    \/ ResumeAfterHandshake
    \/ ResumeAfterPrompt
    \/ ReturnResult
    \/ ThrowError
    \/ UnhandledRejection
    \/ AskFinally
    \/ CliExit

Spec == Init /\ [][Next]_vars

(***************************************************************************)
(* TurnSpec: the turns of one session.  The directory holds the session    *)
(* start -n a created; the only command is send -s a, again and again.     *)
(***************************************************************************)
TurnInit ==
    /\ infoFiles = cmdStart(<<>>, ModelGood, NameA, MkUUID(1)).files
    /\ sessionFiles = {}
    /\ last = NoCommand
    /\ progress = "absent"
    /\ turn = IdleTurn
    /\ obs = ObsStart
    /\ calls = NoCalls

TurnNext ==
    \/ SendStart(NameA)
    \/ \E id \in ResponseIds, ok \in BOOLEAN : LineResponse(id, ok)
    \/ \E d \in DeltaTypes, f \in Fragments : LineMessageUpdate(d, f)
    \/ \E e \in BOOLEAN : LineMessageEnd(e)
    \/ LineToolStart
    \/ LineToolUpdateOrEnd
    \/ \E msgs \in MessageLists : LineAgentEnd(msgs)
    \/ LineHookError
    \/ LineIgnored
    \/ ProcExit
    \/ StdoutEnd
    \/ Tick
    \/ TimerFire
    \/ ResumeAfterHandshake
    \/ ResumeAfterPrompt
    \/ ReturnResult
    \/ ThrowError
    \/ UnhandledRejection
    \/ CliExit

TurnSpec == TurnInit /\ [][TurnNext]_vars

(***************************************************************************)
(* StoreSpec: every command on the session directory, from the empty       *)
(* directory.  The turns of send and ask meet a subordinate that answers   *)
(* or refuses the commands sent, ends the turn with agent_end or           *)
(* hook_error, exits, or stays silent until the timer fires; it streams    *)
(* nothing.                                                                *)
(***************************************************************************)
StoreNext ==
    \/ \E n \in Names, m \in Models : Start(n, m)
    \/ \E id \in SessionArgs : End(id)
    \/ \E id \in SessionArgs : Purge(id)
    \/ List
    \/ \E id \in SessionArgs : SendStart(id)
    \/ \E m \in Models : AskStart(m)
    \/ \E id \in turn.pending, ok \in BOOLEAN : LineResponse(id, ok)
    \/ LineAgentEnd(<<MsgUser, MsgAsstParts>>)
    \/ LineHookError
    \/ ProcExit
    \/ ChildWritesTranscript
    \/ Tick
    \/ TimerFire
    \/ ResumeAfterHandshake
    \/ ResumeAfterPrompt
    \/ ReturnResult
    \/ ThrowError
    \/ UnhandledRejection
    \/ AskFinally
    \/ CliExit

StoreSpec == Init /\ [][StoreNext]_vars

(***************************************************************************)
(* StreamSpec: the turns of one session whose subordinate answers both     *)
(* commands and sends text_delta and agent_end lines in any order and      *)
(* number; no time passes.  The observer notes the fragments.              *)
(***************************************************************************)
StreamFragments == Fragments \cup {<<"i">>}

StreamNext ==
    \/ SendStart(NameA)
    \/ \E id \in turn.pending : LineResponse(id, TRUE)
    \/ \E f \in StreamFragments : NotedTextDelta(f)
    \/ \E msgs \in MessageLists : NotedAgentEnd(msgs)
    \/ ResumeAfterHandshake
    \/ ResumeAfterPrompt
    \/ ReturnResult
    \/ CliExit

StreamSpec == TurnInit /\ [][StreamNext]_vars

(***************************************************************************)
(* ClockSpec: the turns of one session whose subordinate answers the       *)
(* commands or not, shows activity (thinking_delta, tool_execution_start)  *)
(* at any time and ends the turn or not.  The observer times the steps of  *)
(* sendToAgent.                                                            *)
(***************************************************************************)
ClockNext ==
    \/ SendStart(NameA)
    \/ \E id \in turn.pending : LineResponse(id, TRUE)
    \/ LineMessageUpdate("thinking_delta", <<>>)
    \/ LineToolStart
    \/ LineAgentEnd(<<MsgUser, MsgAsstParts>>)
    \/ StepTick
    \/ TimerFire
    \/ ResumeAfterHandshake
    \/ ResumeAfterPrompt
    \/ ReturnResult
    \/ ThrowError
    \/ CliExit

ClockSpec == TurnInit /\ [][ClockNext]_vars

(***************************************************************************)
(* DirSpec: the commands that run no turn, from the empty directory, with  *)
(* two well-formed models to start a session with.                         *)
(***************************************************************************)
DirNext ==
    \/ \E n \in Names, m \in Models \cup {ModelOther} : Start(n, m)
    \/ \E id \in SessionArgs : End(id)
    \/ \E id \in SessionArgs : Purge(id)
    \/ List

DirSpec == Init /\ [][DirNext]_vars

(***************************************************************************)
(* Properties of a turn, under TurnSpec.                                   *)
(***************************************************************************)
\* sendToAgent has returned or thrown
TurnOver == turn.pc \in {"done", "askdone"}

\* C1: however a turn ends (success, protocol abort, timeout, process exit, failing
\* handshake or prompt response), once sendToAgent has returned or thrown its cleanup
\* has run exactly once: no timer is pending, the progress file is absent, the
\* readline interface is closed, stdin of the subordinate is ended, and SIGTERM was
\* sent to the subordinate unless it had exited already.
C1_CleanupOnEveryOutcome ==
    TurnOver =>
        /\ turn.outcome \in {"ok"} \cup TurnErrors
        /\ turn.cleanups = 1
        /\ turn.timer = -1
        /\ progress = "absent"
        /\ turn.rlClosed
        /\ turn.stdinEnded
        /\ turn.sigterm # "none"
        /\ turn.proc = "running" => turn.sigterm = "sent"

\* C1 witness: a turn that failed on its timer during the handshake, cleaned up
C1_Witness ==
    /\ turn.pc = "done"
    /\ turn.endPc = "handshake"
    /\ turn.outcome \in TimeoutErrors
    /\ turn.cleanups = 1
    /\ progress = "absent"

\* C2: a turn fails with a timeout error only when no activity event (text_delta,
\* thinking_delta, tool_execution_*) was processed for a full timeout: with activity
\* at intervals shorter than the timeout it never times out, however long it runs.
C2_SlidingTimeout ==
    turn.timeoutP # "pending" => obs.idle >= Timeout

\* C2 witness: a turn still streaming, not timed out, after more than the timeout
C2_Witness ==
    /\ turn.pc = "streaming"
    /\ turn.race = "pending"
    /\ turn.timeoutP = "pending"
    /\ obs.elapsed > Timeout
    /\ obs.idle < Timeout

\* C3: while sendToAgent waits in the streaming step the timer is pending and due no
\* later than one timeout after the last activity event, so time cannot pass beyond
\* that without the timer firing, and a timer firing in the streaming step makes the
\* turn fail with a timeout error.
C3_InactivityTimesOut ==
    /\ turn.pc = "streaming" /\ turn.race = "pending" =>
          /\ turn.timer >= 0
          /\ turn.timer + obs.idle <= Timeout
    /\ turn.pc = "streaming" /\ turn.timeoutP # "pending" => turn.race \in TimeoutErrors
    /\ turn.pc = "done" /\ turn.endPc = "streaming" /\ turn.timeoutP # "pending" =>
          turn.outcome \in TimeoutErrors

\* C3 witness: a turn that was streaming, saw no activity for a timeout and failed
C3_Witness ==
    /\ turn.pc = "done"
    /\ turn.endPc = "streaming"
    /\ turn.doneP = "pending"
    /\ obs.idle = Timeout
    /\ turn.outcome \in TimeoutErrors

\* C4 (as claimed): a hook_error processed in any step of the turn, the handshake and
\* the prompt step included, makes the turn fail right away: the await sendToAgent is
\* suspended on is rejected.
C4_HookErrorAbortsAtOnce ==
    InTurn(turn) /\ turn.doneP = "HookError" => turn.race \in TurnErrors

\* C5 (as claimed): when the subordinate exits before agent_end and before any other
\* failure (no abort event before the exit, no failing response to a command), then
\* sendToAgent fails with the process-exit error, never with a timeout error, in
\* whatever step of the turn the exit happened.
C5_ExitFailsWithProcessError ==
    /\ turn.pc = "done"
    /\ turn.doneP = "ProcessExit"
    /\ \A i \in 1..2 : turn.cmdP[i] # "rejected"
    => turn.outcome = "ProcessExit"

\* the sum of f(i) over the indices in S
RECURSIVE SumOver(_, _)
SumOver(S, f) ==
    IF S = {} THEN 0
    ELSE LET i == CHOOSE j \in S : TRUE IN f[i] + SumOver(S \ {i}, f)

\* the assistant-authored messages of a list that carry usage
WithUsage(msgs) == {i \in 1..Len(msgs) : msgs[i].role = "assistant" /\ msgs[i].hasUsage}

\* C12: once agent_end was processed the usage of the turn is the sum of input, of
\* output and of cost.total over the assistant messages with usage in the message
\* list of that agent_end, and of nothing else; for the list with assistant usages
\* {10,5,1} and {20,8,2} and a tool result with usage between them it is {30,13,3}.
C12_UsageSumsAllAssistantMessages ==
    turn.finished =>
        LET msgs == turn.agentMessages
            U == WithUsage(msgs)
        IN /\ turn.usage.set
           /\ turn.usage.input = SumOver(U, [i \in U |-> msgs[i].input])
           /\ turn.usage.output = SumOver(U, [i \in U |-> msgs[i].output])
           /\ turn.usage.cost = SumOver(U, [i \in U |-> msgs[i].cost])
           /\ msgs = <<MsgUser, MsgAsstParts, MsgToolResult, MsgAsstString>> =>
                 turn.usage = [set |-> TRUE, input |-> 30, output |-> 13, cost |-> 3]

\* C12 witness: send returned after an agent_end with two assistant usages
C12_Witness ==
    /\ turn.pc = "done"
    /\ turn.outcome = "ok"
    /\ Cardinality(WithUsage(turn.agentMessages)) = 2
    /\ turn.usage = [set |-> TRUE, input |-> 30, output |-> 13, cost |-> 3]

\* the ids of the commands and the state of their completions fit together
IdsInStep ==
    /\ turn.reqId \in 0..2
    /\ turn.pending \subseteq 1..turn.reqId
    /\ \A i \in 1..2 :
          /\ turn.cmdP[i] = "unsent" <=> i > turn.reqId
          /\ turn.cmdP[i] = "pending" <=> i \in turn.pending

\* what a response line with the id and the verdict does to the completion of command i
ResponseSettlesOnlyItsCommand(id, success, i) ==
    LET after == onResponse(turn, id, success).cmdP[i] IN
    IF i = id /\ turn.cmdP[i] = "pending"
    THEN after = IF success THEN "resolved" ELSE "rejected"
    ELSE after = turn.cmdP[i]

\* C15: within a turn the command ids go 1, 2: each sendCommand takes the next id,
\* never one used before, and adds one pending completion for it; a completion
\* changes only from pending to resolved or rejected, once, in a step that takes
\* its id out of the pending map and settles no other; and processing a response
\* line in any state of the turn settles the completion of the command with that
\* id if it is pending (resolved on success, rejected on failure) and leaves every
\* other completion, and every settled one, as it is.
C15_CommandIdsAndCompletions ==
    /\ [](IdsInStep /\ \A id \in ResponseIds, ok \in BOOLEAN, i \in 1..2 :
                         ResponseSettlesOnlyItsCommand(id, ok, i))
    /\ [][turn'.pc # "idle" =>
            /\ turn'.reqId \in {turn.reqId, turn.reqId + 1}
            /\ turn'.reqId # turn.reqId =>
                  /\ turn.cmdP[turn'.reqId] = "unsent"
                  /\ turn'.cmdP[turn'.reqId] = "pending"
                  /\ turn'.pending = turn.pending \cup {turn'.reqId}
            /\ \A i \in 1..2 : turn'.cmdP[i] # turn.cmdP[i] =>
                  \/ turn.cmdP[i] = "unsent" /\ turn'.reqId = i /\ turn.reqId = i - 1
                  \/ /\ turn.cmdP[i] = "pending"
                     /\ turn'.cmdP[i] \in {"resolved", "rejected"}
                     /\ turn'.pending = turn.pending \ {i}
                     /\ \A j \in 1..2 : j # i => turn'.cmdP[j] = turn.cmdP[j]
       ]_vars

\* C15 witness: both commands were sent, get_state was answered with success and
\* prompt with failure, and nothing is pending
C15_Witness ==
    /\ InTurn(turn)
    /\ turn.reqId = 2
    /\ turn.cmdP = <<"resolved", "rejected">>
    /\ turn.pending = {}

\* the timer of t is due a full timeout from now, with the inactivity message
Rearmed(t) == t.timer = Timeout /\ t.timerMsg = "TimeoutInactivity"

\* C18 (as claimed): whenever a line can be processed, a message_update of any
\* delta kind (short of the error kind, which ends the turn) and every
\* tool_execution_start, _update and _end leave the timer due a full timeout
\* from now.
C18_EveryDeltaRearms ==
    CanEmitLine(turn) =>
        /\ \A d \in DeltaTypes \ {"error"}, f \in Fragments :
              Rearmed(onMessageUpdate(turn, d, f))
        /\ Rearmed(onToolStart(turn))
        /\ Rearmed(onToolUpdateOrEnd(turn))

\* C18 (amended): a message_update whose delta is a text_delta or a
\* thinking_delta and every tool_execution_start, _update and _end leave the timer
\* due a full timeout from now; a message_update of another delta kind leaves
\* the turn, its timer included, as it was.  Every step in which the observer sees
\* activity after idle time leaves the timer due a full timeout from then.
C18_ActivityEventsRearm ==
    /\ [](CanEmitLine(turn) =>
            /\ \A d \in {"text_delta", "thinking_delta"}, f \in Fragments :
                  Rearmed(onMessageUpdate(turn, d, f))
            /\ Rearmed(onToolStart(turn))
            /\ Rearmed(onToolUpdateOrEnd(turn))
            /\ \A d \in DeltaTypes \ {"text_delta", "thinking_delta", "error"},
                  f \in Fragments : onMessageUpdate(turn, d, f) = turn)
    /\ [][InTurn(turn) /\ obs.idle > 0 /\ obs'.idle = 0 => Rearmed(turn')]_vars

\* C18 witness: more than a timeout after the turn started an activity event has
\* just been processed and the timer is due a full timeout from now
C18_Witness ==
    /\ InTurn(turn)
    /\ turn.timeoutP = "pending"
    /\ obs.idle = 0
    /\ obs.elapsed > Timeout
    /\ Rearmed(turn)

\* C21: the prompt command (the second command of a turn) is written only in a step
\* taken once a successful response to get_state has been processed and before the
\* timer has fired; once the response to get_state was a failure, or the timer
\* fired during the handshake, no second command is ever written and sendToAgent
\* ends in the handshake step with an error.
C21_PromptOnlyAfterHandshake ==
    /\ [](/\ turn.reqId >= 2 => turn.cmdP[1] = "resolved"
          /\ InTurn(turn) /\ turn.pc # "handshake" => turn.reqId = 2
          /\ turn.cmdP[1] = "rejected"
               \/ (turn.cmdP[1] = "pending" /\ turn.timeoutP # "pending") =>
                /\ turn.reqId = 1
                /\ turn.cmdP[2] = "unsent"
                /\ turn.pc \in {"handshake", "done", "askdone", "crashed"}
                /\ turn.pc = "handshake" =>
                      turn.race \in {"ResponseError"} \cup TimeoutErrors
                /\ TurnOver =>
                      /\ turn.endPc = "handshake"
                      /\ turn.outcome \in {"ResponseError"} \cup TimeoutErrors)
    /\ [][turn.reqId = 1 /\ turn'.reqId = 2 =>
            /\ turn.pc = "handshake" /\ turn'.pc = "prompting"
            /\ turn.cmdP[1] = "resolved"
            /\ turn.race = "ok"
            /\ turn.timeoutP = "pending"]_vars

\* C21 witness: get_state was answered with a failure; the turn has failed in the
\* handshake step and only one command was ever written
C21_Witness ==
    /\ turn.pc = "done"
    /\ turn.endPc = "handshake"
    /\ turn.cmdP = <<"rejected", "unsent">>
    /\ turn.outcome = "ResponseError"
    /\ turn.reqId = 1

\* what each abort trigger leaves in donePromise when it is processed now
AbortsNow ==
    { onHookError(turn).doneP,
      onMessageUpdate(turn, "error", <<>>).doneP,
      onMessageEnd(turn, TRUE).doneP,
      onResponse(turn, 0, FALSE).doneP,
      onResponse(turn, 3, FALSE).doneP,
      onExit(turn).doneP }

\* C22: sendToAgent returns a result only from the streaming step, with both command
\* completions resolved and donePromise resolved by an agent_end.  An agent_end
\* processed in the handshake or prompting step resolves donePromise but leaves the
\* step and its race as they are.  An abort trigger (hook_error, error delta,
\* errored message_end, untracked failing response, exit before agent_end)
\* processed while donePromise is pending rejects it, a rejected donePromise is
\* never resolved by a later agent_end, and donePromise never changes once
\* settled: so no abort trigger came before the agent_end of a successful turn.
C22_SuccessNeedsAllThree ==
    /\ [](/\ turn.outcome = "ok" =>
                /\ turn.endPc = "streaming"
                /\ turn.cmdP = <<"resolved", "resolved">>
                /\ turn.doneP = "resolved"
                /\ turn.finished
          /\ turn.pc \in {"handshake", "prompting"} =>
                \A msgs \in MessageLists :
                   /\ onAgentEnd(turn, msgs).race = turn.race
                   /\ onAgentEnd(turn, msgs).pc = turn.pc
                   /\ onAgentEnd(turn, msgs).cmdP = turn.cmdP
          /\ InTurn(turn) /\ turn.doneP = "pending" =>
                ~turn.finished /\ AbortsNow \subseteq AbortErrors
          /\ InTurn(turn) /\ turn.doneP \in AbortErrors =>
                \A msgs \in MessageLists : onAgentEnd(turn, msgs).doneP = turn.doneP)
    /\ [][turn.doneP # "pending" /\ turn'.pc # "idle" => turn'.doneP = turn.doneP]_vars

\* C22 witness: an agent_end was processed while the prompt is still to be
\* acknowledged, and the turn is still waiting for the acknowledgment
C22_Witness ==
    /\ turn.pc = "prompting"
    /\ turn.cmdP[2] = "pending"
    /\ turn.finished
    /\ turn.doneP = "resolved"
    /\ turn.race = "pending"

\* C23 (as claimed): a response line whose id is not a key of the pending map (an id
\* never sent, an id settled before, no id) settles no completion; if it reports
\* success it leaves the turn as it is; if it reports failure while the outcome is
\* open it aborts the turn: unless a command of the turn was refused, sendToAgent
\* ends with the error of that response.
C23_UntrackedResponse ==
    /\ CanEmitLine(turn) =>
          \A id \in ResponseIds \ turn.pending :
             /\ onResponse(turn, id, TRUE) = turn
             /\ onResponse(turn, id, FALSE).cmdP = turn.cmdP
             /\ onResponse(turn, id, FALSE).pending = turn.pending
             /\ turn.doneP = "pending" =>
                   onResponse(turn, id, FALSE).doneP = "UntrackedResponse"
    /\ /\ turn.pc = "done"
       /\ turn.doneP = "UntrackedResponse"
       /\ \A i \in 1..2 : turn.cmdP[i] # "rejected"
       => turn.outcome = "UntrackedResponse"

\* the race of the streaming step after each abort trigger, were it processed now
RaceAfterAbort ==
    { onHookError(turn).race,
      onMessageUpdate(turn, "error", <<>>).race,
      onMessageEnd(turn, TRUE).race,
      onResponse(turn, 0, FALSE).race,
      onResponse(turn, 3, FALSE).race,
      onExit(turn).race }

\* C27: in the streaming step the race is settled once: while it is pending an abort
\* trigger rejects it and an agent_end resolves it; once an abort trigger has
\* rejected it an agent_end leaves it rejected; once agent_end has resolved it no
\* abort trigger and no exit of the subordinate changes it; a settled race does not
\* change in any step, and sendToAgent returns if it was resolved and throws its
\* error if it was rejected.
C27_OutcomeDecidedOnce ==
    /\ [](turn.pc = "streaming" =>
            /\ turn.race = "pending" =>
                  /\ RaceAfterAbort \subseteq AbortErrors
                  /\ \A msgs \in MessageLists : onAgentEnd(turn, msgs).race = "ok"
            /\ turn.race \in AbortErrors =>
                  \A msgs \in MessageLists : onAgentEnd(turn, msgs).race = turn.race
            /\ turn.race = "ok" => RaceAfterAbort = {"ok"})
    /\ [][turn.pc = "streaming" /\ turn.race # "pending" =>
            \/ turn'.pc = "streaming" /\ turn'.race = turn.race
            \/ turn'.pc = "done" /\ turn'.outcome = turn.race]_vars

\* C27 witness: an abort trigger was processed, then an agent_end, and sendToAgent
\* threw the error of the abort from the streaming step
C27_Witness ==
    /\ turn.pc = "done"
    /\ turn.endPc = "streaming"
    /\ turn.finished
    /\ turn.agentMessages # <<>>
    /\ turn.doneP \in AbortErrors
    /\ turn.outcome = turn.doneP

(***************************************************************************)
(* Properties of the deadlines, under ClockSpec.                           *)
(***************************************************************************)
\* C17 (as claimed): the timer does not fire on a turn in the streaming step until
\* a full timeout has passed both since the prompt was acknowledged and since the
\* last activity event.
C17_DeadlineArmedAtAck ==
    turn.pc = "streaming" /\ turn.timeoutP # "pending" =>
        obs.step >= Timeout /\ obs.idle >= Timeout

\* C17 (amended): the timer is started with the turn and the acknowledgment of the
\* prompt does not touch it: it does not fire until a full timeout has passed both
\* since the turn started and since the last activity event, whenever the prompt
\* was acknowledged.
C17_DeadlineRunsFromTurnStart ==
    /\ [](turn.timeoutP # "pending" => obs.elapsed >= Timeout /\ obs.idle >= Timeout)
    /\ [][turn.pc = "prompting" /\ turn'.pc = "streaming" =>
            turn'.timer = turn.timer /\ turn'.timerMsg = turn.timerMsg]_vars

\* C17 witness: a turn timed out in the streaming step one timeout after it
\* started, less than a timeout after the prompt was acknowledged
C17_Witness ==
    /\ turn.pc = "done"
    /\ turn.endPc = "streaming"
    /\ turn.outcome = "TimeoutWaiting"
    /\ obs.elapsed = Timeout
    /\ obs.step < Timeout

\* sendToAgent waits for the response to get_state or to prompt
AwaitsResponse == turn.pc \in {"handshake", "prompting"} /\ turn.race = "pending"

\* C19 (as claimed): sendToAgent does not wait for the response to get_state, or to
\* prompt, for longer than the timeout, whatever the subordinate emits meanwhile.
C19_StepsHaveFixedDeadline ==
    AwaitsResponse => obs.step <= Timeout

\* C19 (amended): while sendToAgent waits for the response to get_state or to
\* prompt the one timer of the turn is pending and due a timeout after the later of
\* the start of the turn and the last activity event; when it fires the turn fails
\* with a timeout error.  So a step with no activity event in it ends within a
\* timeout of its start, and activity events in it put the deadline off.
C19_StepsShareSlidingDeadline ==
    /\ AwaitsResponse =>
          /\ turn.timer >= 0
          /\ turn.timer + obs.idle = Timeout
          /\ obs.idle >= obs.step => obs.step <= Timeout
    /\ turn.pc \in {"handshake", "prompting"} /\ turn.timeoutP # "pending" =>
          turn.race \in TimeoutErrors
    /\ turn.pc = "done" /\ turn.endPc \in {"handshake", "prompting"}
          /\ turn.timeoutP # "pending" => turn.outcome \in TimeoutErrors

\* C19 witness: the handshake was never answered and, put off by activity events,
\* failed on the timer more than a timeout after it began
C19_Witness ==
    /\ turn.pc = "done"
    /\ turn.endPc = "handshake"
    /\ turn.cmdP[1] = "pending"
    /\ turn.outcome = "TimeoutInactivity"
    /\ obs.step > Timeout

(***************************************************************************)
(* Properties of the response text, under StreamSpec.                      *)
(***************************************************************************)
\* send has returned a response after a turn with one agent_end and no text_delta
\* after it
ReturnedAfterOneEnd ==
    turn.pc = "done" /\ turn.outcome = "ok" /\ obs.ends = 1 /\ ~obs.late

\* the text of the last assistant-authored message of a list: the content if it is a
\* string, its text parts joined by a blank line if it is a list of parts, else empty
TextOfLastAssistant(msgs) ==
    LET A == {i \in 1..Len(msgs) : msgs[i].role = "assistant"} IN
    IF A = {} THEN <<>>
    ELSE LET m == msgs[CHOOSE i \in A : \A j \in A : j <= i]
             texts == SelectSeq(m.parts, LAMBDA c : c.type = "text" /\ c.hasText)
         IN CASE m.ckind = "string" -> m.text
              [] m.ckind = "parts" ->
                   Join([k \in 1..Len(texts) |-> texts[k].text], <<"\n", "\n">>)
              [] OTHER -> <<>>

\* C13: when send returns after a turn in which no text_delta was processed, or in
\* which the fragments processed before agent_end make an empty or whitespace-only
\* text, the response is the trimmed text of the last assistant-authored message of
\* the message list of agent_end, empty when there is none or its content is neither
\* a string nor a list of parts.
C13_FallbackToLastAssistantText ==
    ReturnedAfterOneEnd /\ Trim(obs.streamed) = <<>> =>
        turn.response = Trim(TextOfLastAssistant(turn.agentMessages))

\* C13 witness: only a blank fragment was streamed and send returned the text parts
\* of the last assistant message, joined by a blank line
C13_Witness ==
    /\ ReturnedAfterOneEnd
    /\ obs.streamed = <<" ">>
    /\ turn.agentMessages = <<MsgUser, MsgAsstParts>>
    /\ turn.response = <<"A", "\n", "\n", "B">>

\* C14 (as claimed): when at least one text_delta was processed, the response is the
\* trimmed concatenation of the fragments, whatever the message list of agent_end.
C14_StreamedTextWins ==
    ReturnedAfterOneEnd /\ obs.streamed # <<>> => turn.response = Trim(obs.streamed)

\* C14 (amended): when the fragments processed before agent_end make a text with a
\* character that is not white space, the response is the trimmed concatenation of
\* the fragments in the order they arrived, whatever the message list of agent_end.
C14_NonBlankStreamedTextWins ==
    ReturnedAfterOneEnd /\ Trim(obs.streamed) # <<>> =>
        turn.response = Trim(obs.streamed)

\* C14 witness: three fragments, the first blank, and a message list with another
\* text; send returned the two other fragments in their order
C14_Witness ==
    /\ ReturnedAfterOneEnd
    /\ obs.streamed = <<" ", "H", "i">>
    /\ TextOfLastAssistant(turn.agentMessages) # <<>>
    /\ turn.response = <<"H", "i">>

\* C28 (as claimed): once an agent_end has resolved donePromise, no line processed
\* before sendToAgent returns (a text_delta, another agent_end) changes the response
\* text or the usage, and sendToAgent returns the text, trimmed, and the usage as
\* they were when that agent_end had been processed.
C28_ResultFixedAtAgentEnd ==
    [][turn.doneP = "resolved" /\ InTurn(turn) =>
         /\ InTurn(turn') =>
               /\ Trim(turn'.responseText) = Trim(turn.responseText)
               /\ turn'.usage = turn.usage
         /\ turn'.pc = "done" /\ turn'.outcome = "ok" =>
               /\ turn'.response = Trim(turn.responseText)
               /\ turn'.usage = turn.usage]_vars

(***************************************************************************)
(* Properties of the session directory, under StoreSpec.                   *)
(***************************************************************************)
\* the step is the command line invocation op with the session argument arg
CommandStep(op, arg) == turn.pc = "idle" /\ last'.op = op /\ last'.arg = arg

FilesUnchanged == infoFiles' = infoFiles /\ sessionFiles' = sessionFiles

ShownClosed == PadEnd(<<"c","l","o","s","e","d">>, StatusPad)
ShownActive == PadEnd(<<"a","c","t","i","v","e">>, StatusPad)

\* C6: end on a session that list shows as active leaves its metadata record (all
\* other fields as they were) and its transcript in place and makes list show it as
\* closed; send on a session that list shows as closed loads it and starts a turn on
\* it, the same turn as send starts on an active session.
C6_EndKeepsSessionResumable ==
    [][\A id \in SessionArgs :
         /\ ( /\ CommandStep("end", id)
              /\ InfoExists(infoFiles, id)
              /\ ListRow(infoFiles[id]).status = ShownActive )
            => /\ last'.err = "none"
               /\ InfoExists(infoFiles', id)
               /\ infoFiles' = [infoFiles EXCEPT ![id].status = "closed"]
               /\ ListRow(infoFiles'[id]) \in cmdList(infoFiles')
               /\ ListRow(infoFiles'[id]).status = ShownClosed
               /\ sessionFiles' = sessionFiles
         /\ ( /\ CommandStep("send", id)
              /\ InfoExists(infoFiles, id)
              /\ ListRow(infoFiles[id]).status = ShownClosed )
            => /\ last'.err = "running"
               /\ turn'.pc = "handshake"
               /\ turn'.sessionId = id
               /\ turn' = beginTurn(id, "send")
               /\ FilesUnchanged
    ]_vars

\* C6 witness: a turn of send is under way on a session that is closed and still has
\* its metadata record and the transcript of an earlier turn
C6_Witness ==
    /\ turn.pc = "streaming"
    /\ turn.caller = "send"
    /\ InfoExists(infoFiles, turn.sessionId)
    /\ infoFiles[turn.sessionId].status = "closed"
    /\ turn.sessionId \in sessionFiles
    /\ last.before = [info |-> TRUE, transcript |-> TRUE]

\* C7: purge on a well-formed id succeeds and leaves neither the metadata record nor
\* the transcript of that id, touching no other session; on an id that has neither it
\* changes nothing; load, send and end on an id without a metadata record fail with
\* session-not-found and change nothing.
C7_PurgeRemovesSession ==
    [][\A id \in SessionArgs : validateSessionId(id) = "none" =>
         /\ CommandStep("purge", id)
            => /\ last'.err = "none"
               /\ ~InfoExists(infoFiles', id)
               /\ id \notin sessionFiles'
               /\ sessionFiles' = sessionFiles \ {id}
               /\ \A o \in DOMAIN infoFiles : o # id =>
                     InfoExists(infoFiles', o) /\ infoFiles'[o] = infoFiles[o]
               /\ DOMAIN infoFiles' \subseteq DOMAIN infoFiles
               /\ loadSessionInfo(infoFiles', id).err = "SessionNotFound"
               /\ ~InfoExists(infoFiles, id) /\ id \notin sessionFiles => FilesUnchanged
         /\ ( /\ CommandStep("send", id) \/ CommandStep("end", id)
              /\ ~InfoExists(infoFiles, id) )
            => /\ last'.err = "SessionNotFound"
               /\ turn' = turn
               /\ FilesUnchanged
    ]_vars

\* C7 witness: purge has just removed a metadata record and a transcript
C7_Witness ==
    /\ last.op = "purge"
    /\ last.err = "none"
    /\ last.before = [info |-> TRUE, transcript |-> TRUE]
    /\ ~InfoExists(infoFiles, last.arg)
    /\ last.arg \notin sessionFiles

\* C8: ask starts a session with a generated id and runs send on it; the session is
\* active while send runs; once send has returned or thrown, end has run on that id
\* before ask returns or throws: the record exists with status closed and ask ends
\* as send did, with its result or with its error.
C8_AskEndsItsSession ==
    /\ turn.caller = "ask" =>
          /\ isUUID(turn.sessionId)
          /\ last.op = "ask" /\ last.arg = turn.sessionId
          /\ InfoExists(infoFiles, turn.sessionId)
    /\ turn.caller = "ask" /\ (InTurn(turn) \/ turn.pc = "done") =>
          ListRow(infoFiles[turn.sessionId]).status = ShownActive
    /\ turn.pc = "askdone" =>
          /\ turn.outcome \in {"ok"} \cup TurnErrors
          /\ turn.askOutcome = turn.outcome
          /\ infoFiles[turn.sessionId].status = "closed"
    /\ turn.pc = "idle" /\ last.op = "ask" /\ last.arg # <<>> /\ ~last.crashed =>
          /\ last.err \in {"none"} \cup TurnErrors
          /\ InfoExists(infoFiles, last.arg)
          /\ infoFiles[last.arg].status = "closed"

\* C8 witness: the send of an ask has failed and ask is about to throw that error,
\* the session closed
C8_Witness ==
    /\ turn.pc = "askdone"
    /\ turn.outcome \in TurnErrors
    /\ turn.askOutcome = turn.outcome
    /\ infoFiles[turn.sessionId].status = "closed"

\* C16: no step of a send, from the load of the session to the exit of the
\* controller, writes a metadata file: whether send returns, throws (failed
\* response, abort, timeout, process exit) or the controller dies, every record,
\* that of the session included, has the id, the status and all other fields it had
\* before.
C16_TurnLeavesRecordAlone ==
    [][turn.caller = "send" \/ turn'.caller = "send" => infoFiles' = infoFiles]_vars

\* C16 witness: send has thrown the process-exit error on a closed session, whose
\* record is still there and closed
C16_Witness ==
    /\ turn.pc = "done"
    /\ turn.caller = "send"
    /\ turn.outcome = "ProcessExit"
    /\ InfoExists(infoFiles, turn.sessionId)
    /\ infoFiles[turn.sessionId].id = turn.sessionId
    /\ infoFiles[turn.sessionId].status = "closed"

\* the step is the invocation of start with the name option name and the model model
StartStep(name, model) == CommandStep("start", name) /\ last'.model = model

\* a model string of the form provider:model-id
WellFormedModel(model) == \E i \in 1..Len(model) : model[i] = ":"

\* C9: start with a name of one or more characters of [A-Za-z0-9_-], at most 64 of
\* them, that no metadata record has yet, and with a well-formed model, succeeds and
\* returns the name as the session id; it writes a metadata record under that id
\* that is not closed, adds no other file, and list has a line for the session that
\* shows it as active (under its name, when the name does not look like a UUID).
C9_StartWithNameCreatesSession ==
    [][\A n \in Names, m \in Models :
         ( /\ StartStep(n, m)
           /\ MatchesIdRegex(n) /\ Len(n) <= MaxNameLen
           /\ ~InfoExists(infoFiles, n)
           /\ WellFormedModel(m) )
         => /\ last'.err = "none"
            /\ last'.ret = n
            /\ DOMAIN infoFiles' = DOMAIN infoFiles \cup {n}
            /\ \A o \in DOMAIN infoFiles : infoFiles'[o] = infoFiles[o]
            /\ sessionFiles' = sessionFiles
            /\ infoFiles'[n].id = n
            /\ infoFiles'[n].model = m
            /\ infoFiles'[n].status # "closed"
            /\ ListRow(infoFiles'[n]) \in cmdList(infoFiles')
            /\ ListRow(infoFiles'[n]).status = ShownActive
            /\ ~isUUID(n) => ListRow(infoFiles'[n]).id = PadEnd(n, IdPad)
    ]_vars

\* C9 witness: start has just created the session named by a name of 64 characters
C9_Witness ==
    /\ last.op = "start"
    /\ last.arg = NameMax
    /\ Len(last.arg) = MaxNameLen
    /\ last.err = "none"
    /\ last.ret = NameMax
    /\ ~last.before.info
    /\ InfoExists(infoFiles, NameMax)

\* an id as the specification defines it
ValidId(s) == MatchesIdRegex(s) /\ Len(s) <= MaxNameLen

\* the invocation failed before it did anything
Rejected == last'.err \notin {"none", "running"} /\ turn' = turn /\ FilesUnchanged

\* C10 (as claimed): start with a name, send, end and purge given a string that is
\* empty, longer than 64 characters or has a character outside [A-Za-z0-9_-] fail
\* and leave the session files as they were.
C10_InvalidIdRejectedEverywhere ==
    [][\A n \in Names : ~ValidId(n) =>
         /\ \A m \in Models : n # <<>> /\ StartStep(n, m) => Rejected
         /\ CommandStep("send", n) => Rejected
         /\ CommandStep("end", n) => Rejected
         /\ CommandStep("purge", n) => Rejected
    ]_vars

\* C10 (amended): a string that is empty or has a character outside [A-Za-z0-9_-]
\* is rejected as an invalid id by send, end and purge and, when it is not empty, as
\* an invalid name by start (unless start rejects the model first); a string of
\* such characters that is longer than 64 is rejected by start as too long and by
\* send and end as a session that is not found, and purge accepts it and does
\* nothing; none of these changes a session file.  start with an empty name is
\* start without a name: it creates a session with a generated id.
C10_InvalidIdHandling ==
    [][\A n \in Names : ~ValidId(n) =>
         /\ ~MatchesIdRegex(n) =>
              /\ \A m \in Models : n # <<>> /\ StartStep(n, m) =>
                    /\ Rejected
                    /\ last'.err = IF WellFormedModel(m) THEN "InvalidSessionName"
                                                         ELSE "InvalidModel"
              /\ ( \/ CommandStep("send", n)
                   \/ CommandStep("end", n)
                   \/ CommandStep("purge", n) )
                 => Rejected /\ last'.err = "InvalidSessionId"
         /\ MatchesIdRegex(n) =>
              /\ \A m \in Models : StartStep(n, m) =>
                    /\ Rejected
                    /\ last'.err = IF WellFormedModel(m) THEN "NameTooLong"
                                                         ELSE "InvalidModel"
              /\ CommandStep("send", n) \/ CommandStep("end", n)
                 => Rejected /\ last'.err = "SessionNotFound"
              /\ CommandStep("purge", n) =>
                    last'.err = "none" /\ turn' = turn /\ FilesUnchanged
         /\ \A m \in Models : n = <<>> /\ StartStep(n, m) /\ WellFormedModel(m) =>
              /\ last'.err = "none"
              /\ isUUID(last'.ret)
              /\ DOMAIN infoFiles' = DOMAIN infoFiles \cup {last'.ret}
    ]_vars

\* C10 witness: purge was given a well-formed id of 65 characters and reported success
C10_Witness ==
    /\ last.op = "purge"
    /\ last.arg = NameLong
    /\ Len(last.arg) > MaxNameLen
    /\ MatchesIdRegex(last.arg)
    /\ last.err = "none"

\* C20: send given an id that is malformed or has no metadata record fails with
\* invalid-session-id or session-not-found and nothing else happens: no subordinate
\* process is spawned (the turn stays idle), the progress file is not written and
\* no session file is created or changed.  Only send on the id of an existing
\* record spawns the subordinate and writes the progress file.
C20_SendFailsBeforeAnything ==
    [][\A id \in SessionArgs : CommandStep("send", id) =>
         /\ ~ValidId(id) \/ ~InfoExists(infoFiles, id) =>
               /\ last'.err = IF validateSessionId(id) # "none"
                               THEN "InvalidSessionId" ELSE "SessionNotFound"
               /\ turn'.proc = "none" /\ turn'.pc = "idle"
               /\ turn' = turn
               /\ progress' = progress
               /\ FilesUnchanged
         /\ ValidId(id) /\ InfoExists(infoFiles, id) =>
               /\ last'.err = "running"
               /\ turn'.proc = "running" /\ turn'.sessionId = id
               /\ progress' = "thinking"
               /\ FilesUnchanged
    ]_vars

\* C20 witness: send on a well-formed id without a record has just failed while
\* another session exists; no process runs and there is no progress file
C20_Witness ==
    /\ last.op = "send"
    /\ last.err = "SessionNotFound"
    /\ ValidId(last.arg)
    /\ ~InfoExists(infoFiles, last.arg)
    /\ DOMAIN infoFiles # {}
    /\ turn.pc = "idle" /\ turn.proc = "none"
    /\ progress = "absent"

(***************************************************************************)
(* Properties of start, under DirSpec.                                     *)
(***************************************************************************)
\* C11: start with a well-formed model and a valid name that has a metadata record
\* which list shows as active fails with the collision error, and no file changes:
\* the record keeps every field, the model it was started with included.
C11_StartRefusesTakenName ==
    [][\A n \in Names, m \in Models \cup {ModelOther} :
         ( /\ StartStep(n, m)
           /\ WellFormedModel(m)
           /\ InfoExists(infoFiles, n)
           /\ ListRow(infoFiles[n]).status = ShownActive )
         => /\ last'.err = "AlreadyExists"
            /\ last'.ret = <<>>
            /\ InfoExists(infoFiles', n)
            /\ infoFiles'[n] = infoFiles[n]
            /\ FilesUnchanged
    ]_vars

\* C11 witness: start with another model was refused for the name of an active
\* session, whose record still has the model it was started with
C11_Witness ==
    /\ last.op = "start"
    /\ last.err = "AlreadyExists"
    /\ last.before.info
    /\ InfoExists(infoFiles, last.arg)
    /\ infoFiles[last.arg].status # "closed"
    /\ infoFiles[last.arg].model # last.model

LiveNext ==
    \/ SendStart(NameA)
    \/ \E id \in turn.pending, ok \in BOOLEAN : LineResponse(id, ok)
    \/ LineToolUpdateOrEnd
    \/ LineIgnored
    \/ LineAgentEnd(<<MsgUser, MsgAsstParts>>)
    \/ LineHookError
    \/ ProcExit
    \/ StdoutEnd
    \/ Tick
    \/ TimerFire
    \/ ResumeAfterHandshake
    \/ ResumeAfterPrompt
    \/ ReturnResult
    \/ ThrowError
    \/ UnhandledRejection
    \/ CliExit

LiveSpec ==
    /\ TurnInit
    /\ [][LiveNext]_vars
    /\ WF_vars(Tick)
    /\ WF_vars(TimerFire)
    /\ WF_vars(ResumeAfterHandshake)
    /\ WF_vars(ResumeAfterPrompt)
    /\ WF_vars(ReturnResult)
    /\ WF_vars(ThrowError)

(***************************************************************************)
(* RaceSpec: two processes run start, end and purge at the same time on a  *)
(* directory that holds the session start -n a created, with the           *)
(* transcript a turn of it left.                                           *)
(***************************************************************************)
RaceNames == {NameA, NameSlash}

RaceInit ==
    /\ infoFiles = cmdStart(<<>>, ModelGood, NameA, MkUUID(1)).files
    /\ sessionFiles = {NameA}
    /\ last = NoCommand
    /\ progress = "absent"
    /\ turn = IdleTurn
    /\ obs = ObsStart
    /\ calls = NoCalls

RaceNext ==
    \E c \in Callers :
       \/ \E n \in RaceNames, m \in {ModelGood, ModelOther} : CallStartCheck(c, n, m)
       \/ CallStartWrite(c)
       \/ \E id \in RaceNames : CallEndExists(c, id)
       \/ CallEndRead(c)
       \/ CallEndSave(c)
       \/ \E id \in RaceNames : CallPurgeInfoExists(c, id)
       \/ CallPurgeInfoUnlink(c)
       \/ CallPurgeFileExists(c)
       \/ CallPurgeFileUnlink(c)
       \/ CallExit(c)

RaceSpec == RaceInit /\ [][RaceNext]_vars

(***************************************************************************)
(* PairSpec: two processes run send on the session a at the same time,     *)
(* again and again.  A process that died of an unhandled rejection stays   *)
(* as it died: its turn was started and is never cleaned up.               *)
(***************************************************************************)
PairNext ==
    \E c \in Callers :
       \/ CallSend(c)
       \/ CallLine(c)
       \/ CallTimerOrExit(c)
       \/ CallResume(c)
       \/ CallCrash(c)
       \/ CallFinallyExists(c)
       \/ CallFinallyUnlink(c)
       \/ CallExit(c)

PairSpec == TurnInit /\ [][PairNext]_vars

(***************************************************************************)
(* Properties of the progress file, under PairSpec.                        *)
(***************************************************************************)
\* the turn of c was started and its cleanup is not over
InFlight(c) == calls[c].op = "send" /\ calls[c].turn.cleanups = 0

\* C29: with turns running at the same time the progress file exists only while
\* the turn of some process is in flight, that is started and not through its
\* cleanup; the file is written only in the step of a process that starts its turn
\* or whose turn is in flight with its line reader open, before and after the step,
\* never by a handler after the cleanup of its turn; so
\* when every turn started is through its cleanup the file is absent.
C29_ProgressOnlyInFlight ==
    /\ [](progress # "absent" => \E c \in Callers : InFlight(c))
    /\ []((\A c \in Callers : calls[c].op = "send" => calls[c].turn.cleanups = 1)
            => progress = "absent")
    /\ [][progress' # "absent" /\ progress' # progress =>
            \E c \in Callers :
               /\ \A d \in Callers \ {c} : calls'[d] = calls[d]
               /\ InFlight(c)'
               /\ \/ calls[c].pc = "idle" /\ calls'[c].pc = "turn"
                  \/ /\ calls[c].pc = "turn"
                     /\ InFlight(c)
                     /\ CanEmitLine(calls[c].turn)
                     /\ calls'[c].pc = "turn"]_vars

\* C29 witness: one process is through the cleanup of its turn, which failed, and
\* the other, whose turn is in flight, has written the progress file since
C29_Witness ==
    \E c, d \in Callers :
       /\ calls[c].pc = "done"
       /\ calls[c].turn.cleanups = 1
       /\ calls[c].turn.outcome = "HookError"
       /\ calls[d].pc = "turn"
       /\ calls[d].turn.pc = "streaming"
       /\ progress = "tool"

(***************************************************************************)
(* Properties of processes running at the same time, under RaceSpec.       *)
(***************************************************************************)
\* C25 (as claimed): when two start calls with the same name run at the same time,
\* at most one of them gets past the existence check of the name, and so at most
\* one succeeds; and no start writes its record over a record that is there.
C25_OneStartWins ==
    /\ [](\A c, d \in Callers :
            ( /\ c # d
              /\ calls[c].op = "start" /\ calls[d].op = "start"
              /\ calls[c].arg = calls[d].arg )
            => ~(calls[c].pc = "checked" /\ calls[d].pc = "checked"))
    /\ [][\A c \in Callers :
            ( /\ calls[c].op = "start"
              /\ calls[c].pc = "checked"
              /\ calls'[c].pc = "done" )
            => ~InfoExists(infoFiles, calls[c].arg)]_vars

\* C30 (as claimed): a metadata record that is absent, as it is once purge has
\* removed it, comes into being only by the write of a start; the steps of an end
\* running at the same time do not bring it back.
C30_PurgeNotUndoneByEnd ==
    [][\A id \in RaceNames :
         ~InfoExists(infoFiles, id) /\ InfoExists(infoFiles', id) =>
            \E c \in Callers : /\ calls[c].op = "start"
                               /\ calls[c].pc = "checked"
                               /\ calls'[c].pc = "done"]_vars

(***************************************************************************)
(* Termination of a turn, under LiveSpec.                                  *)
(***************************************************************************)
\* a step in which an activity event is processed after time has passed
ActivityStep == InTurn(turn) /\ obs.idle > 0 /\ obs'.idle = 0

StatusNext ==
    \/ \E n \in Names, m \in Models : Start(n, m)
    \/ \E id \in SessionArgs : End(id)
    \/ \E id \in SessionArgs : Purge(id)
    \/ List
    \/ \E id \in SessionArgs : SendStart(id)
    \/ \E m \in Models : AskStart(m)
    \/ \E id \in turn.pending, ok \in BOOLEAN : LineResponse(id, ok)
    \/ LineAgentEnd(<<MsgUser, MsgAsstParts>>)
    \/ LineHookError
    \/ ResumeAfterHandshake
    \/ ResumeAfterPrompt
    \/ ReturnResult
    \/ ThrowError
    \/ UnhandledRejection
    \/ AskFinally
    \/ CliExit

StatusSpec == Init /\ [][StatusNext]_vars

(***************************************************************************)
(* Properties of a session's status, under StatusSpec.                     *)
(***************************************************************************)
\* the record of id exists and its status is closed
IsClosed(files, id) == id \in DOMAIN files /\ files[id].status = "closed"

\* C31: a session's status only moves from active to closed.  The record stored
\* under an id carries that id; a closed record stays closed in every step that
\* keeps it, whatever command runs and whether it succeeds or fails, and it goes
\* away only in a purge of that id; a record comes into being only in a start (by
\* start or by ask), so a closed id is active again only after purge and a new
\* start; and list prints closed for every closed record.
C31_StatusOnlyCloses ==
    /\ [](\A id \in DOMAIN infoFiles : infoFiles[id].id = id)
    /\ [](last.op = "list" =>
            \A id \in DOMAIN infoFiles :
               IsClosed(infoFiles, id) =>
                  \E row \in last.ret :
                     /\ row = ListRow(infoFiles[id])
                     /\ row.status = PadEnd(<<"c","l","o","s","e","d">>, StatusPad))
    /\ [][\A id \in DOMAIN infoFiles :
             IsClosed(infoFiles, id) =>
                /\ id \in DOMAIN infoFiles' => IsClosed(infoFiles', id)
                /\ id \notin DOMAIN infoFiles' =>
                      last'.op = "purge" /\ last'.arg = id /\ last'.err = "none"]_vars
    /\ [][\A id \in DOMAIN infoFiles' :
             ~IsClosed(infoFiles', id) /\ ~(id \in DOMAIN infoFiles /\ ~IsClosed(infoFiles, id)) =>
                /\ id \notin DOMAIN infoFiles
                /\ last'.op \in {"start", "ask"}
                /\ last'.err \in {"none", "running"}]_vars

\* C31 witness: send on a closed session has run a turn to its end and returned
\* the response, and the session's record is still closed
C31_Witness ==
    /\ last.op = "send"
    /\ last.err = "none"
    /\ last.ret # <<>>
    /\ turn.pc = "idle"
    /\ IsClosed(infoFiles, last.arg)

====
